---- MODULE Spec2Model ----
(***************************************************************************)
(* A model of burl, an HTTP benchmarking tool: the run orchestrator        *)
(* (BenchClient::start_run), the per-worker sample collector               *)
(* (SampleCollector) and the statistics summary (StatsProcessor /          *)
(* StatsSummary).                                                          *)
(*                                                                         *)
(* Time.  The code reads a shared monotonic timer (Arc<Instant>) and a     *)
(* per-sample Instant.  Workers never communicate through the timer, they  *)
(* only read it, so the model keeps for every worker the last reading it   *)
(* observed ("clock", in nanoseconds since the timer was created); every   *)
(* later reading of the same worker is the earlier one plus the time the   *)
(* environment let pass.  Durations are whole nanoseconds, as in           *)
(* std::time::Duration.                                                    *)
(***************************************************************************)
EXTENDS Integers, Sequences, FiniteSets, TLC

\* Bounds of the model.
MaxConcurrency == 2
MaxRuns == 2
MaxWarmup == 2
MaxSamples == 4
MaxReports == 2
MaxTime == 1
MaxFaults == 1
MaxTestLen == 2
MaxPermutations == 2
MaxDraws == 2
MaxBootstrap == 2
MaxPercentileLen == 4
MaxLiveRequests == 4

VARIABLES
    cfg,                \* BenchConfig: the immutable configuration of the run
    pc,                 \* position of start_run
    warmupSent,         \* warm-up requests that completed (loop counter of lib.rs:95)
    timer,              \* TRUE once the shared timer (lib.rs:103) exists
    tasks,              \* the worker tasks, in thread_idx order (index = thread_idx + 1)
    samples_by_thread,  \* collectors handed back to start_run by the joined tasks
    stats,              \* what start_run returns
    warmupFailed,       \* history: a warm-up request ended in a transport error
    attempts,           \* history: timed requests sent by each worker
    history,            \* history: what came back for each worker's requests, in order
    fsys,               \* the file system: the report directory and a baseline directory
    report,             \* the create_report call in progress or last finished
    utc_now,            \* the UTC clock, in seconds
    faults,             \* file system operations that have failed so far
    eval                \* the call of a statistical tester under examination

runVars == <<cfg, pc, warmupSent, timer, tasks, samples_by_thread, stats,
             warmupFailed, attempts, history>>

reportVars == <<fsys, report, utc_now, faults>>

vars == <<cfg, pc, warmupSent, timer, tasks, samples_by_thread, stats,
          warmupFailed, attempts, history, fsys, report, utc_now, faults, eval>>

\* No tester is called.
NoEval == [fn |-> "none"]

----------------------------------------------------------------------------
\* Configuration (config.rs)

Scales == {"Nano", "Micro", "Milli", "Secs"}

\* A plausible slip: the runs are divided among the workers.
n_runs_divided(c) == c.n_runs \div (IF c.concurrency_level > 1 THEN c.concurrency_level ELSE 1)

\* BenchConfig::n_runs (the configured count; the default of 300 is beyond the bounds)
n_runs(c) == c.n_runs

warmup_runs(c) == c.n_warmup_runs

\* ConcurrenyLevel: Sequential, or Concurrent(level) for level > 1
concurrency_level(c) ==
    IF c.concurrency_level > 1
    THEN [kind |-> "Concurrent", n_threads |-> c.concurrency_level]
    ELSE [kind |-> "Sequential", n_threads |-> 0]

\* DurationScale::elapsed: the Duration d (nanoseconds) as a number of whole
\* units of the scale (as_nanos / as_micros / as_millis / as_secs truncate).
elapsed(scale, d) ==
    CASE scale = "Nano"  -> d
      [] scale = "Micro" -> d \div 1000
      [] scale = "Milli" -> d \div 1000000
      [] scale = "Secs"  -> d \div 1000000000

----------------------------------------------------------------------------
\* Request factory (request_factory.rs)

\* assemble_request: Some(request) unless the method is Post and the config has
\* neither a json payload nor a gql query.
assemble_request(c) ==
    CASE c.method = "Get" -> "Some"
      [] c.method = "Post" ->
            IF c.json_payload \/ c.gql_query THEN "Some" ELSE "None"
      [] OTHER -> "Unimplemented"

----------------------------------------------------------------------------
\* Sample collector (sampling/sampler.rs)

SUCCESS == 200

NoLength == [some |-> FALSE, v |-> 0]
SomeLength(n) == [some |-> TRUE, v |-> n]

\* SampleCollector::new
NewCollector(thread_idx, runs, scale) ==
    [thread_idx |-> thread_idx, n_runs |-> runs, duration_scale |-> scale,
     results |-> <<>>]

\* A plausible slip: every 2xx status counts as a success.
IsSuccess2xx(status_code) == status_code \in 200..299

\* The SUCCESS arm of the match in SampleCollector::add
IsSuccess(status_code) == status_code = SUCCESS

\* The match of SampleCollector::add: the RequestResult of a response.
\* "attempt" is history: the loop iteration that sent the request.
RequestResult(scale, since_start, request_end, request_duration, status_code, content_length, attempt) ==
    IF IsSuccess(status_code)
    THEN [kind |-> "Ok",
          measurement_start |-> elapsed(scale, since_start),
          measurement_end   |-> elapsed(scale, request_end),
          duration          |-> elapsed(scale, request_duration),
          content_length    |-> content_length,
          attempt           |-> attempt]
    ELSE [kind |-> "Failed", status_code |-> status_code, attempt |-> attempt]

\* A plausible slip: the newest result is put in front.
PushFront(results, result) == <<result>> \o results

\* self.results.push(result)
Push(results, result) == Append(results, result)

\* SampleCollector::add
add(col, since_start, request_end, request_duration, status_code, content_length, attempt) ==
    [col EXCEPT !.results =
        Push(@, RequestResult(col.duration_scale, since_start, request_end,
                              request_duration, status_code, content_length,
                              attempt))]

\* A plausible slip: a transport error is recorded as a failed response.
OnSendErrorRecorded(col) ==
    [col EXCEPT !.results =
        Append(@, [kind |-> "Failed", status_code |-> 0, attempt |-> Len(@)])]

\* The Err arm of timed_request: the error is logged, nothing is recorded.
OnSendError(col) == col

\* A worker: the iterator of `for _ in 0..n_runs`, the request in flight and
\* the collector the loop fills.
NewTask(thread_idx, runs, scale) ==
    [next |-> 0, end |-> runs, inflight |-> FALSE, measurement_start |-> 0,
     clock |-> 0, collector |-> NewCollector(thread_idx, runs, scale)]

\* A plausible slip: the loop is taken to end one request later.
TaskFinishedLate(t) == t.next = t.end + 1 /\ ~t.inflight

\* The loop of collect_samples has ended and the collector is handed back.
TaskFinished(t) == t.next = t.end /\ ~t.inflight

----------------------------------------------------------------------------
\* Statistics (stats/stats_collection.rs)

Min(a, b) == IF a <= b THEN a ELSE b

RECURSIVE SumSeq(_)
SumSeq(s) == IF s = <<>> THEN 0 ELSE Head(s) + SumSeq(Tail(s))

RECURSIVE Concat(_)
Concat(ss) == IF ss = <<>> THEN <<>> ELSE Head(ss) \o Concat(Tail(ss))

IsOk(r) == r.kind = "Ok"
IsFailed(r) == r.kind = "Failed"

\* The f64 values the statistics compute from whole durations are kept exact,
\* as fractions num / den with den > 0.
Rat(num, den) == [num |-> num, den |-> den]
RatLeq(a, b) == a.num * b.den <= b.num * a.den
RatEq(a, b) == a.num * b.den = b.num * a.den

NoneF64 == [some |-> FALSE]
SomeF64(v) == [some |-> TRUE, v |-> v]

\* DurationScale::scale
DurationScale_scale(s) ==
    CASE s = "Nano"  -> 1000000000
      [] s = "Micro" -> 1000000
      [] s = "Milli" -> 1000
      [] s = "Secs"  -> 1

\* requests_per_sec: None for a mean below ZERO_THRESHOLD (a mean of whole
\* durations is below 1e-16 only when it is 0), else factor / mean, kept as
\* the two operands of the division.
requests_per_sec(req_per_duration, s) ==
    IF req_per_duration.num = 0
    THEN NoneF64
    ELSE SomeF64([factor |-> DurationScale_scale(s) \div DurationScale_scale("Secs"), per |-> req_per_duration])

\* standard_deviation: None for at most one sample, else
\* sqrt(squared_errors / (n_samples - 1)).  The squares of nanosecond durations
\* are beyond TLC's integers, so the value is kept as its terms: the errors
\* d - mean (as fractions over mean.den) and the divisor.
standard_deviation(samples, mean) ==
    LET n_samples == Len(samples)
    IN  IF n_samples <= 1
        THEN NoneF64
        ELSE SomeF64([errors  |-> [j \in 1..n_samples |->
                                      samples[j] * mean.den - mean.num],
                      den     |-> mean.den,
                      divisor |-> n_samples - 1])

\* The standard deviation is 0.0: every error is 0.
StdIsZero(std) == \A j \in 1..Len(std.v.errors) : std.v.errors[j] = 0

\* impl From<&SampleCollector> for ThreadStats
ThreadStatsFrom(samples) ==
    LET ok     == SelectSeq(samples.results, IsOk)
        failed == SelectSeq(samples.results, IsFailed)
        codes  == {failed[j].status_code : j \in 1..Len(failed)}
        durations == [j \in 1..Len(ok) |-> ok[j].duration]
        n      == Len(durations)
        sum    == SumSeq(durations)
        mean   == Rat(sum, n)
    IN  [durations   |-> durations,
         errors      |-> [c \in codes |->
                            Cardinality({j \in 1..Len(failed) : failed[j].status_code = c})],
         total_bytes |-> SumSeq([j \in 1..Len(ok) |->
                            IF ok[j].content_length.some THEN ok[j].content_length.v ELSE 0]),
         n_ok        |-> Len(ok),
         n_errors    |-> Len(failed),
         total_duration |-> IF n = 0 THEN NoneF64 ELSE SomeF64(sum),
         mean        |-> IF n = 0 THEN NoneF64 ELSE SomeF64(mean),
         max         |-> IF n = 0 THEN NoneF64
                         ELSE SomeF64(CHOOSE x \in {0} \cup {durations[j] : j \in 1..n} :
                                \A j \in 1..n : durations[j] <= x),
         min         |-> IF n = 0 THEN NoneF64
                         ELSE SomeF64(CHOOSE x \in {durations[j] : j \in 1..n} :
                                \A j \in 1..n : x <= durations[j]),
         std         |-> IF n = 0 THEN NoneF64 ELSE standard_deviation(durations, mean)]

\* usize is 64 bits wide and TLC's integers are 32 bits wide, so the wrap-around
\* of usize arithmetic is modelled at 2^16: all that matters is that it is far
\* above every count the bounds of the model allow.
UsizeModulus == 2^16

\* a - b on usize: with overflow checks (a debug build) an underflow panics,
\* without them (a release build) it wraps.
SubUsize(a, b) ==
    IF a >= b
    THEN {[panic |-> FALSE, v |-> a - b]}
    ELSE {[panic |-> TRUE, v |-> 0], [panic |-> FALSE, v |-> a - b + UsizeModulus]}

\* n_ok of StatsSummary::calculate, n = durations.len()
SummaryNOk(n, n_errors) == SubUsize(n, n_errors)

\* A plausible slip: the durations are left in the order of arrival.
Unsorted(durations) == durations

\* durations.sort_by(|a, b| a.partial_cmp(b).unwrap())
SortDurations(durations) == SortSeq(durations, LAMBDA a, b : a < b)

\* A panic of percentile: a usize underflow or an index out of bounds.
PercentilePanic == [panic |-> TRUE]

\* A plausible slip: the nearest integer
rounded(num, den) == (2 * num + den) \div (2 * den)

\* f64::floor of num / den, for num >= 0 and den > 0
floor(num, den) == num \div den

\* percentile(samples, level, n) for a level num / den; samples is sorted.
\* candidate_idx = n * level; indices are one-based here (the code's + 1).
percentile(samples, level, n) ==
    LET candidate_num == n * level.num
        floored       == floor(candidate_num, level.den)
    IN  IF candidate_num % level.den = 0
        THEN \* idx_bottom = floored - 1, idx_top = floored.min(n)
             IF floored = 0 \/ Min(floored, n) + 1 > Len(samples)
             THEN PercentilePanic
             ELSE [panic |-> FALSE,
                   v |-> Rat(samples[floored] + samples[Min(floored, n) + 1], 2)]
        ELSE \* idx = (candidate_idx + 1).floor().min(n) - 1
             IF Min(floored + 1, n) > Len(samples) \/ Min(floored + 1, n) = 0
             THEN PercentilePanic
             ELSE [panic |-> FALSE, v |-> Rat(samples[Min(floored + 1, n)], 1)]

NotBuilt   == [kind |-> "NotBuilt"]
NoneResult == [kind |-> "None"]
Panicked   == [kind |-> "Panic"]

\* StatsSummary::calculate: the results the build can produce
calculate(scale, n_errors, total_bytes, durations, errors, stats_by_thread) ==
    LET n      == Len(durations)
        sum    == SumSeq(durations)
        mean   == Rat(sum, n)
        std    == standard_deviation(durations, mean)
        sorted == SortDurations(durations)
        quartile_fst == percentile(sorted, Rat(1, 4), n)
        median       == percentile(sorted, Rat(1, 2), n)
        quartile_trd == percentile(sorted, Rat(3, 4), n)
    IN  IF n = 0
        THEN {NoneResult}
        ELSE IF quartile_fst.panic \/ median.panic \/ quartile_trd.panic
        THEN {Panicked}
        ELSE {IF k.panic
              THEN Panicked
              ELSE [kind |-> "Some", scale |-> scale, durations |-> sorted,
                    total_duration |-> sum, total_bytes |-> total_bytes,
                    mean_rps |-> requests_per_sec(mean, scale),
                    mean |-> mean, median |-> median.v,
                    min |-> sorted[1], max |-> sorted[n], std |-> std,
                    quartile_fst |-> quartile_fst.v, quartile_trd |-> quartile_trd.v,
                    n_errors |-> n_errors, errors |-> errors, n_ok |-> k.v,
                    stats_by_thread |-> stats_by_thread]
              : k \in SummaryNOk(n, n_errors)}

\* StatsProcessor::stats_summary
stats_summary(scale, sample_collections) ==
    LET m    == Len(sample_collections)
        ts   == [j \in 1..m |-> ThreadStatsFrom(sample_collections[j])]
        idxs == {sample_collections[j].thread_idx : j \in 1..m}
        codes == UNION {DOMAIN ts[j].errors : j \in 1..m}
    IN  calculate(scale,
                  SumSeq([j \in 1..m |-> ts[j].n_errors]),
                  SumSeq([j \in 1..m |-> ts[j].total_bytes]),
                  Concat([j \in 1..m |-> ts[j].durations]),
                  [c \in codes |->
                      SumSeq([j \in 1..m |->
                                IF c \in DOMAIN ts[j].errors THEN ts[j].errors[c] ELSE 0])],
                  [i \in idxs |->
                      ts[CHOOSE j \in 1..m :
                            /\ sample_collections[j].thread_idx = i
                            /\ \A l \in j+1..m : sample_collections[l].thread_idx # i]])

----------------------------------------------------------------------------
\* JSON (serde_json with the derived Serialize / Deserialize of StatsSummary
\* and ThreadStats).  A JSON text is kept as the value it denotes: null, a
\* number (an integer token such as 3, or a float token such as 3.0), a
\* string, an array, an object, or a text that is no JSON at all.  A finite
\* f64 is written as the shortest float token that reads back as the same
\* f64, so a number token carries the value as the statistics hold it.

JsonNull == [json |-> "null"]
JsonInvalid == [json |-> "invalid"]
JsonNumber(v, float) == [json |-> "number", float |-> float, v |-> v]
JsonString(str) == [json |-> "string", v |-> str]
JsonArray(items) == [json |-> "array", items |-> items]
JsonObject(fields) == [json |-> "object", fields |-> fields]

ser_f64(v) == JsonNumber(v, TRUE)
ser_usize(n) == JsonNumber(n, FALSE)
ser_option_f64(o) == IF o.some THEN ser_f64(o.v) ELSE JsonNull

\* A HashMap key ThreadIdx (usize) is written as a string.
ThreadIdxKey(i) == ToString(i)

\* Serialize for ThreadStats: errors and durations are skipped
serialize_ThreadStats(ts) ==
    JsonObject([total_bytes    |-> ser_usize(ts.total_bytes),
                n_ok           |-> ser_usize(ts.n_ok),
                n_errors       |-> ser_usize(ts.n_errors),
                total_duration |-> ser_option_f64(ts.total_duration),
                mean           |-> ser_option_f64(ts.mean),
                max            |-> ser_option_f64(ts.max),
                min            |-> ser_option_f64(ts.min),
                std            |-> ser_option_f64(ts.std)])

ser_durations(durations) ==
    JsonArray([j \in 1..Len(durations) |-> ser_f64(durations[j])])

\* Serialize for StatsSummary: errors is skipped
serialize_StatsSummary(st) ==
    JsonObject([durations      |-> ser_durations(st.durations),
                scale          |-> JsonString(st.scale),
                total_duration |-> ser_f64(st.total_duration),
                total_bytes    |-> ser_usize(st.total_bytes),
                mean_rps       |-> ser_option_f64(st.mean_rps),
                mean           |-> ser_f64(st.mean),
                median         |-> ser_f64(st.median),
                quartile_fst   |-> ser_f64(st.quartile_fst),
                quartile_trd   |-> ser_f64(st.quartile_trd),
                min            |-> ser_f64(st.min),
                max            |-> ser_f64(st.max),
                std            |-> ser_option_f64(st.std),
                n_ok           |-> ser_usize(st.n_ok),
                n_errors       |-> ser_usize(st.n_errors),
                stats_by_thread |->
                    JsonObject([k \in {ThreadIdxKey(i) : i \in DOMAIN st.stats_by_thread} |->
                        serialize_ThreadStats(
                            st.stats_by_thread[CHOOSE i \in DOMAIN st.stats_by_thread :
                                                  ThreadIdxKey(i) = k])])])

\* serialize(&Option<StatsSummary>): None is written as null
serialize(current_results) ==
    IF current_results.kind = "Some"
    THEN serialize_StatsSummary(current_results)
    ELSE JsonNull

\* Deserialize: what a JSON value must be for a field of each type
IsF64(j) == j.json = "number"
IsUnsigned(j) == j.json = "number" /\ ~j.float /\ j.v >= 0
IsDurationScale(j) == j.json = "string" /\ j.v \in Scales
IsOptionF64(fields, name) ==
    name \notin DOMAIN fields \/ fields[name].json \in {"null", "number"}
HasFields(fields, names, IsType(_)) ==
    \A name \in names : name \in DOMAIN fields /\ IsType(fields[name])

\* An Option<f64> field: absent or null is None
de_option_f64(fields, name) ==
    IF name \in DOMAIN fields /\ fields[name].json = "number"
    THEN SomeF64(fields[name].v)
    ELSE NoneF64

\* The thread indices a key of stats_by_thread can stand for
ThreadIdxs == 0..MaxConcurrency

IsThreadStats(j) ==
    /\ j.json = "object"
    /\ HasFields(j.fields, {"total_bytes", "n_ok", "n_errors"}, IsUnsigned)
    /\ \A name \in {"total_duration", "mean", "max", "min", "std"} :
          IsOptionF64(j.fields, name)

\* Deserialize for ThreadStats: errors and durations take their defaults
deserialize_ThreadStats(j) ==
    [durations   |-> <<>>,
     errors      |-> <<>>,
     total_bytes |-> j.fields.total_bytes.v,
     n_ok        |-> j.fields.n_ok.v,
     n_errors    |-> j.fields.n_errors.v,
     total_duration |-> de_option_f64(j.fields, "total_duration"),
     mean        |-> de_option_f64(j.fields, "mean"),
     max         |-> de_option_f64(j.fields, "max"),
     min         |-> de_option_f64(j.fields, "min"),
     std         |-> de_option_f64(j.fields, "std")]

IsStatsSummary(j) ==
    /\ j.json = "object"
    /\ "durations" \in DOMAIN j.fields
    /\ j.fields.durations.json = "array"
    /\ \A k \in 1..Len(j.fields.durations.items) : IsF64(j.fields.durations.items[k])
    /\ HasFields(j.fields, {"scale"}, IsDurationScale)
    /\ HasFields(j.fields, {"total_duration", "mean", "median", "quartile_fst",
                            "quartile_trd", "min", "max"}, IsF64)
    /\ HasFields(j.fields, {"total_bytes", "n_ok", "n_errors"}, IsUnsigned)
    /\ \A name \in {"mean_rps", "std"} : IsOptionF64(j.fields, name)
    /\ "stats_by_thread" \in DOMAIN j.fields
    /\ j.fields.stats_by_thread.json = "object"
    /\ \A k \in DOMAIN j.fields.stats_by_thread.fields :
          /\ \E i \in ThreadIdxs : ThreadIdxKey(i) = k
          /\ IsThreadStats(j.fields.stats_by_thread.fields[k])

\* Deserialize for StatsSummary: errors takes its default
deserialize_StatsSummary(j) ==
    LET by == j.fields.stats_by_thread.fields
    IN  [kind |-> "Some",
         scale |-> j.fields.scale.v,
         durations |-> [k \in 1..Len(j.fields.durations.items) |->
                           j.fields.durations.items[k].v],
         total_duration |-> j.fields.total_duration.v,
         total_bytes |-> j.fields.total_bytes.v,
         mean_rps |-> de_option_f64(j.fields, "mean_rps"),
         mean |-> j.fields.mean.v,
         median |-> j.fields.median.v,
         min |-> j.fields.min.v,
         max |-> j.fields.max.v,
         std |-> de_option_f64(j.fields, "std"),
         quartile_fst |-> j.fields.quartile_fst.v,
         quartile_trd |-> j.fields.quartile_trd.v,
         n_errors |-> j.fields.n_errors.v,
         errors |-> <<>>,
         n_ok |-> j.fields.n_ok.v,
         stats_by_thread |->
            [i \in {i \in ThreadIdxs : ThreadIdxKey(i) \in DOMAIN by} |->
                deserialize_ThreadStats(by[ThreadIdxKey(i)])]]

\* The StatsSummary of burl::reporting (reporting/stats_collection.rs), the
\* report stage kept beside burl::stats: it has the fields of the summary
\* above and the two percentile tables calculate fills in.

\* PERCENTILE_LEVELS, in percent
PERCENTILE_LEVELS == <<1, 5, 10, 20, 30, 40, 50, 60, 70, 80, 90, 95, 99>>

\* display_percentiles of calculate: (level * 100, percentile) for every level
display_percentiles(durations) ==
    [k \in 1..Len(PERCENTILE_LEVELS) |->
        <<PERCENTILE_LEVELS[k],
          percentile(durations, Rat(PERCENTILE_LEVELS[k], 100), Len(durations)).v>>]

\* qq_percentiles of calculate: the levels 1/m .. (m-1)/m for m = n / 10
qq_percentiles(durations) ==
    LET n_percentiles == Len(durations) \div 10
    IN  [level \in 1..(n_percentiles - 1) |->
            <<Rat(level * 100, n_percentiles),
              percentile(durations, Rat(level, n_percentiles), Len(durations)).v>>]

ser_pairs(pairs) ==
    JsonArray([k \in 1..Len(pairs) |->
                  JsonArray(<<ser_f64(pairs[k][1]), ser_f64(pairs[k][2])>>)])

\* Serialize for reporting::StatsSummary: errors and durations are skipped
serialize_reporting_StatsSummary(st) ==
    JsonObject([scale          |-> JsonString(st.scale),
                total_duration |-> ser_f64(st.total_duration),
                total_bytes    |-> ser_usize(st.total_bytes),
                mean_rps       |-> ser_option_f64(st.mean_rps),
                mean           |-> ser_f64(st.mean),
                median         |-> ser_f64(st.median),
                quartile_fst   |-> ser_f64(st.quartile_fst),
                quartile_trd   |-> ser_f64(st.quartile_trd),
                min            |-> ser_f64(st.min),
                max            |-> ser_f64(st.max),
                std            |-> ser_option_f64(st.std),
                n_ok           |-> ser_usize(st.n_ok),
                n_errors       |-> ser_usize(st.n_errors),
                stats_by_thread |->
                    JsonObject([k \in {ThreadIdxKey(i) : i \in DOMAIN st.stats_by_thread} |->
                        serialize_ThreadStats(
                            st.stats_by_thread[CHOOSE i \in DOMAIN st.stats_by_thread :
                                                  ThreadIdxKey(i) = k])]),
                display_percentiles |-> ser_pairs(display_percentiles(st.durations)),
                qq_percentiles |-> ser_pairs(qq_percentiles(st.durations))])

IsPairs(j) ==
    /\ j.json = "array"
    /\ \A k \in 1..Len(j.items) :
          /\ j.items[k].json = "array"
          /\ Len(j.items[k].items) = 2
          /\ IsF64(j.items[k].items[1])
          /\ IsF64(j.items[k].items[2])

IsReportingStatsSummary(j) ==
    /\ j.json = "object"
    /\ HasFields(j.fields, {"scale"}, IsDurationScale)
    /\ HasFields(j.fields, {"total_duration", "mean", "median", "quartile_fst",
                            "quartile_trd", "min", "max"}, IsF64)
    /\ HasFields(j.fields, {"total_bytes", "n_ok", "n_errors"}, IsUnsigned)
    /\ \A name \in {"mean_rps", "std"} : IsOptionF64(j.fields, name)
    /\ HasFields(j.fields, {"qq_percentiles"}, IsPairs)
    /\ "stats_by_thread" \in DOMAIN j.fields
    /\ j.fields.stats_by_thread.json = "object"
    /\ \A k \in DOMAIN j.fields.stats_by_thread.fields :
          /\ \E i \in ThreadIdxs : ThreadIdxKey(i) = k
          /\ IsThreadStats(j.fields.stats_by_thread.fields[k])

\* Deserialize for reporting::StatsSummary: errors, durations and
\* display_percentiles take their defaults
deserialize_reporting_StatsSummary(j) ==
    LET by == j.fields.stats_by_thread.fields
    IN  [kind |-> "Some",
         scale |-> j.fields.scale.v,
         durations |-> <<>>,
         total_duration |-> j.fields.total_duration.v,
         total_bytes |-> j.fields.total_bytes.v,
         mean_rps |-> de_option_f64(j.fields, "mean_rps"),
         mean |-> j.fields.mean.v,
         median |-> j.fields.median.v,
         min |-> j.fields.min.v,
         max |-> j.fields.max.v,
         std |-> de_option_f64(j.fields, "std"),
         quartile_fst |-> j.fields.quartile_fst.v,
         quartile_trd |-> j.fields.quartile_trd.v,
         n_errors |-> j.fields.n_errors.v,
         errors |-> <<>>,
         n_ok |-> j.fields.n_ok.v,
         stats_by_thread |->
            [i \in {i \in ThreadIdxs : ThreadIdxKey(i) \in DOMAIN by} |->
                deserialize_ThreadStats(by[ThreadIdxKey(i)])]]

\* serde_json::from_str::<reporting::StatsSummary>
from_str_reporting(text) ==
    IF IsReportingStatsSummary(text)
    THEN [ok |-> TRUE, v |-> deserialize_reporting_StatsSummary(text)]
    ELSE [ok |-> FALSE]

\* serde_json::from_str::<StatsSummary>: Ok(summary), or Err for a text that
\* is no JSON or no StatsSummary (null among them)
from_str(text) ==
    IF IsStatsSummary(text)
    THEN [ok |-> TRUE, v |-> deserialize_StatsSummary(text)]
    ELSE [ok |-> FALSE]

----------------------------------------------------------------------------
\* The run orchestrator (lib.rs, BenchClient::start_run)

Max(a, b) == IF a >= b THEN a ELSE b

\* The number of workers: one for Sequential, n_threads.max(1) for Concurrent
NThreads(c) ==
    LET level == concurrency_level(c)
    IN  IF level.kind = "Sequential" THEN 1 ELSE Max(level.n_threads, 1)

\* A plausible slip: the timer is created before the warm-up has ended.
WarmupSkipped == TRUE

\* The warm-up loop `for _ in 0..warmup_runs()` has run to its end.
WarmupFinished == warmupSent >= warmup_runs(cfg)

\* A plausible slip: the warm-up error is logged and the loop goes on.
OnWarmupErrorIgnored == [pc |-> "warmup", stats |-> NotBuilt]

\* What start_run does on a warm-up transport error: return None.
OnWarmupError == [pc |-> "returned", stats |-> NoneResult]

\* A plausible slip: only the first task is awaited.
JoinedFirst == Len(samples_by_thread) >= 1

\* `for task in tasks { samples_by_thread.push(task.await.unwrap()) }` has
\* taken the collector of every spawned task.
JoinedAll == Len(samples_by_thread) = Len(tasks)

\* The request can be assembled, or start_run returns at once.
AssembleRequest ==
    /\ pc = "assemble"
    /\ LET r == assemble_request(cfg)
       IN  /\ pc' = IF r = "Some" THEN "warmup" ELSE "returned"
           /\ stats' = CASE r = "Some" -> stats
                          [] r = "None" -> NoneResult
                          [] OTHER      -> Panicked
    /\ UNCHANGED <<cfg, warmupSent, timer, tasks, samples_by_thread,
                   warmupFailed, attempts, history>>
    /\ UNCHANGED <<reportVars, eval>>

\* One warm-up request is sent and answered (whatever its status).
WarmupOk ==
    /\ pc = "warmup"
    /\ ~WarmupFinished
    /\ warmupSent' = warmupSent + 1
    /\ UNCHANGED <<cfg, pc, timer, tasks, samples_by_thread, stats,
                   warmupFailed, attempts, history>>
    /\ UNCHANGED <<reportVars, eval>>

\* One warm-up request is sent and fails with a transport error.
WarmupErr ==
    /\ pc = "warmup"
    /\ ~WarmupFinished
    /\ warmupFailed' = TRUE
    /\ pc' = OnWarmupError.pc
    /\ stats' = OnWarmupError.stats
    /\ UNCHANGED <<cfg, warmupSent, timer, tasks, samples_by_thread,
                   attempts, history>>
    /\ UNCHANGED <<reportVars, eval>>

\* let timer = Arc::new(Instant::now())
StartTimer ==
    /\ pc = "warmup"
    /\ WarmupFinished
    /\ timer' = TRUE
    /\ pc' = "dispatch"
    /\ UNCHANGED <<cfg, warmupSent, tasks, samples_by_thread, stats,
                   warmupFailed, attempts, history>>
    /\ UNCHANGED <<reportVars, eval>>

\* ConcurrenyLevel::Sequential: start_run itself runs collect_samples(0, ..)
StartSequential ==
    /\ pc = "dispatch"
    /\ concurrency_level(cfg).kind = "Sequential"
    /\ tasks' = <<NewTask(0, n_runs(cfg), cfg.duration_scale)>>
    /\ attempts' = <<0>>
    /\ history' = << <<>> >>
    /\ pc' = "sequential"
    /\ UNCHANGED <<cfg, warmupSent, timer, samples_by_thread, stats, warmupFailed>>
    /\ UNCHANGED <<reportVars, eval>>

\* ConcurrenyLevel::Concurrent: tokio::spawn of the next worker; after the
\* last one start_run goes on to await the tasks.
Spawn ==
    /\ pc = "dispatch"
    /\ concurrency_level(cfg).kind = "Concurrent"
    /\ Len(tasks) < NThreads(cfg)
    /\ tasks' = Append(tasks, NewTask(Len(tasks), n_runs(cfg), cfg.duration_scale))
    /\ attempts' = Append(attempts, 0)
    /\ history' = Append(history, <<>>)
    /\ pc' = IF Len(tasks') = NThreads(cfg) THEN "join" ELSE "dispatch"
    /\ UNCHANGED <<cfg, warmupSent, timer, samples_by_thread, stats, warmupFailed>>
    /\ UNCHANGED <<reportVars, eval>>

\* A plausible slip: one collector shared by all workers.
shared_collector(i) == 1

\* `&mut stats_collector`: the collector that collect_samples created for its
\* own loop and passes to each timed_request.
collector_of(i) == i

\* timed_request up to `request.send().await`: worker i reads the timer and
\* sends the next request of its loop.
Issue(i) ==
    /\ i \in 1..Len(tasks)
    /\ ~tasks[i].inflight
    /\ tasks[i].next < tasks[i].end
    /\ tasks' = [tasks EXCEPT ![i].next = @ + 1,
                              ![i].inflight = TRUE,
                              ![i].measurement_start = tasks[i].clock]
    /\ attempts' = [attempts EXCEPT ![i] = @ + 1]
    /\ UNCHANGED <<cfg, pc, warmupSent, timer, samples_by_thread, stats,
                   warmupFailed, history>>
    /\ UNCHANGED <<reportVars, eval>>

\* The Ok arm of timed_request: the response of worker i's request arrives
\* `latency` after it was sent; reading the timer again takes `overhead`.
Respond(i, status_code, content_length, latency, overhead) ==
    /\ i \in 1..Len(tasks)
    /\ tasks[i].inflight
    /\ LET t   == tasks[i]
           now == t.clock + latency + overhead
       IN  tasks' = [tasks EXCEPT
                ![i].inflight = FALSE,
                ![i].clock = now,
                ![collector_of(i)].collector =
                        add(@, t.measurement_start, now, latency, status_code,
                            content_length, t.next - 1)]
    /\ history' = [history EXCEPT ![i] =
            Append(@, [kind |-> "response", status_code |-> status_code,
                       content_length |-> content_length, latency |-> latency])]
    /\ UNCHANGED <<cfg, pc, warmupSent, timer, samples_by_thread, stats,
                   warmupFailed, attempts>>
    /\ UNCHANGED <<reportVars, eval>>

\* The Err arm of timed_request: worker i's request fails after `latency`.
TransportError(i, latency) ==
    /\ i \in 1..Len(tasks)
    /\ tasks[i].inflight
    /\ tasks' = [tasks EXCEPT
            ![i].inflight = FALSE,
            ![i].clock = @ + latency,
            ![i].collector = OnSendError(@)]
    /\ history' = [history EXCEPT ![i] = Append(@, [kind |-> "error"])]
    /\ UNCHANGED <<cfg, pc, warmupSent, timer, samples_by_thread, stats,
                   warmupFailed, attempts>>
    /\ UNCHANGED <<reportVars, eval>>

\* task.await: the next task in spawn order has finished and hands its
\* collector back.
Join ==
    /\ pc = "join"
    /\ Len(samples_by_thread) < Len(tasks)
    /\ TaskFinished(tasks[Len(samples_by_thread) + 1])
    /\ samples_by_thread' =
            Append(samples_by_thread, tasks[Len(samples_by_thread) + 1].collector)
    /\ UNCHANGED <<cfg, pc, warmupSent, timer, tasks, stats,
                   warmupFailed, attempts, history>>
    /\ UNCHANGED <<reportVars, eval>>

\* Concurrent: the statistics over samples_by_thread, returned by start_run
Collect ==
    /\ pc = "join"
    /\ JoinedAll
    /\ stats' \in stats_summary(cfg.duration_scale, samples_by_thread)
    /\ pc' = "returned"
    /\ UNCHANGED <<cfg, warmupSent, timer, tasks, samples_by_thread,
                   warmupFailed, attempts, history>>
    /\ UNCHANGED <<reportVars, eval>>

\* Sequential: collect_samples has returned; the statistics over vec![sc]
CollectSequential ==
    /\ pc = "sequential"
    /\ TaskFinished(tasks[1])
    /\ samples_by_thread' = <<tasks[1].collector>>
    /\ stats' \in stats_summary(cfg.duration_scale, samples_by_thread')
    /\ pc' = "returned"
    /\ UNCHANGED <<cfg, warmupSent, timer, tasks, warmupFailed, attempts, history>>
    /\ UNCHANGED <<reportVars, eval>>

----------------------------------------------------------------------------
\* The report stage (burl-reporter/src/report.rs, ReportFactory; the same
\* steps are in burl/src/reporting/report.rs, ReportSummary)

\* A file holds a text; "by" is history: the create_report call that wrote it
\* (0 for a file that was there before the first call).
Absent == [kind |-> "absent"]
File(by, text) == [kind |-> "file", by |-> by, text |-> text]
Exists(f) == f.kind = "file"

\* The files of <report>/data: the three artifacts and a file of the user.
Artifacts == {"stats.json", "meta.json", "samples.json"}
DataNames == Artifacts \cup {"notes.txt"}

\* The files create_components writes into <report>/components, in order.
ComponentNames ==
    <<"summary.html", "durations_distribution.html", "durations_timeseries.html",
      "durations_histogram.html", "qq_plot.html", "bootstrap_histogram.html">>

NoFiles(names) == [name \in names |-> Absent]

\* An empty disk: neither the report directory nor the baseline directory
FreshFs ==
    [root |-> FALSE, report_html |-> FALSE,
     components_dir |-> FALSE,
     components |-> NoFiles({ComponentNames[k] : k \in 1..Len(ComponentNames)}),
     data_dir |-> FALSE, data |-> NoFiles(DataNames),
     hist |-> <<>>,
     baseline_dir |-> FALSE, baseline_stats |-> Absent]

\* No create_report call yet.
NoCall ==
    [run |-> 0, pc |-> "idle", result |-> "none",
     config |-> [report_directory |-> FALSE, baseline_path |-> FALSE]]

NoReport ==
    /\ fsys = FreshFs
    /\ report = NoCall
    /\ utc_now = 0
    /\ faults = 0
    /\ eval = NoEval

\* A file system operation may fail while failures are left in the budget.
MayFail(fault) == fault => faults < MaxFaults
Count(fault) == faults' = IF fault THEN faults + 1 ELSE faults

\* The collectors a finished run hands to the report: built with add from
\* what the server answered (status code and latency in nanoseconds).
RECURSIVE AddAll(_, _)
AddAll(col, responses) ==
    IF responses = <<>>
    THEN col
    ELSE AddAll(add(col, 0, responses[1].latency, responses[1].latency,
                    responses[1].status_code, SomeLength(10), Len(col.results)),
                Tail(responses))

Answer(status_code, latency) == [status_code |-> status_code, latency |-> latency]

\* Runs with no Ok sample and with two different durations
ReportAnswers ==
    {<<Answer(503, 2000000)>>,
     <<Answer(200, 5000000), Answer(200, 2000000)>>}

\* Baseline runs with two different durations and with two equal ones (a
\* standard deviation of 0)
BaselineAnswers ==
    {<<Answer(200, 3000000), Answer(200, 7000000)>>,
     <<Answer(200, 3000000), Answer(200, 3000000)>>}

\* StatsProcessor::new(duration_scale, samples_by_thread), for runs measured
\* in microseconds
StatsProcessors ==
    {[scale |-> "Micro",
      sample_collections |-> <<AddAll(NewCollector(0, Len(a), "Micro"), a)>>] :
        a \in ReportAnswers}

\* StatsProcessor::sample_results_by_thread: the Ok samples of every thread
sample_results_by_thread(processor) ==
    LET cols == processor.sample_collections
    IN  [i \in {cols[j].thread_idx : j \in 1..Len(cols)} |->
            SelectSeq(cols[CHOOSE j \in 1..Len(cols) : cols[j].thread_idx = i].results,
                      IsOk)]

\* Serialize for SampleResult: the three Durations are skipped
serialize_SampleResult(sr) ==
    JsonObject([measurement_start |-> ser_f64(sr.measurement_start),
                measurement_end   |-> ser_f64(sr.measurement_end),
                duration          |-> ser_f64(sr.duration),
                content_length    |-> IF sr.content_length.some
                                      THEN ser_usize(sr.content_length.v)
                                      ELSE JsonNull])

serialize_samples(by_thread) ==
    JsonObject([k \in {ThreadIdxKey(i) : i \in DOMAIN by_thread} |->
        LET samples == by_thread[CHOOSE i \in DOMAIN by_thread : ThreadIdxKey(i) = k]
        IN  JsonArray([j \in 1..Len(samples) |-> serialize_SampleResult(samples[j])])])

\* ReportMeta::from and its Serialize: the times of the run and the config
serialize_ReportMeta(call) ==
    JsonObject([start_time |-> JsonString(ToString(call.start_time)),
                end_time   |-> JsonString(ToString(call.end_time)),
                config     |-> JsonObject([
                    duration_scale   |-> JsonString(call.duration_scale),
                    report_directory |-> IF call.config.report_directory
                                         THEN JsonString("report") ELSE JsonNull,
                    baseline_path    |-> IF call.config.baseline_path
                                         THEN JsonString("baseline") ELSE JsonNull])])

\* The summary component (html_report.rs).  The html is kept as its
\* placeholders: each is still in the text or was replaced by a value.
Placeholder == [replaced |-> FALSE]
Replaced(text) == [replaced |-> TRUE, text |-> text]

CurrentKeys ==
    {"$SCALE$", "$TOTAL_BYTES$", "$N_OK$", "$N_FAILED$", "$N_THREADS$",
     "$TOTAL_DURATION$", "$MEAN$", "$RPS$", "$STDEV$", "$MIN$", "$MAX$",
     "$Q1$", "$Q2$", "$Q3$"}

BaselineKeys ==
    {"$SCALE_BASELINE$", "$PERFORMANCE_OUTCOME$", "$PERMUTATION_PERFORMANCE_OUTCOME$",
     "$TOTAL_BYTES_BASELINE$", "$N_OK_BASELINE$", "$N_FAILED_BASELINE$",
     "$N_THREADS_BASELINE$", "$TOTAL_DURATION_BASELINE$", "$MEAN_BASELINE$",
     "$RPS_BASELINE$", "$STDEV_BASELINE$", "$MIN_BASELINE$", "$MAX_BASELINE$",
     "$Q1_BASELINE$", "$Q2_BASELINE$", "$Q3_BASELINE$"}

\* templates/summary_template.html and templates/baseline_summary_template.html
summary_template == [key \in CurrentKeys |-> Placeholder]
baseline_summary_template == [key \in CurrentKeys \cup BaselineKeys |-> Placeholder]

\* html.replace(key, value): every occurrence of the key, if there is one
replace(html, key, value) ==
    IF key \in DOMAIN html /\ ~html[key].replaced
    THEN [html EXCEPT ![key] = Replaced(value)]
    ELSE html

\* An Option<f64> printed with unwrap_or(f64::NAN)
unwrap_or_nan(o) == IF o.some THEN o.v ELSE "NaN"

\* SummaryComponent::update_current
update_current(html, st) ==
    LET values == ("$SCALE$" :> st.scale) @@ ("$TOTAL_BYTES$" :> st.total_bytes)
               @@ ("$N_OK$" :> st.n_ok) @@ ("$N_FAILED$" :> st.n_errors)
               @@ ("$N_THREADS$" :> Cardinality(DOMAIN st.stats_by_thread))
               @@ ("$TOTAL_DURATION$" :> st.total_duration) @@ ("$MEAN$" :> st.mean)
               @@ ("$RPS$" :> unwrap_or_nan(st.mean_rps))
               @@ ("$STDEV$" :> unwrap_or_nan(st.std))
               @@ ("$MIN$" :> st.min) @@ ("$MAX$" :> st.max)
               @@ ("$Q1$" :> st.quartile_fst) @@ ("$Q2$" :> st.median)
               @@ ("$Q3$" :> st.quartile_trd)
    IN  [key \in DOMAIN html |->
            IF key \in DOMAIN values THEN replace(html, key, values[key])[key]
            ELSE html[key]]

\* SummaryComponent::new, add_current, add_baseline (which takes the baseline
\* template) and compile; compile calls update_current only.
compile(current_stats, baseline_stats) ==
    update_current(IF baseline_stats.kind = "Some"
                   THEN baseline_summary_template
                   ELSE summary_template,
                   current_stats)

\* StatsSummary::normal_qq_curve: Normal::new(mean, std).unwrap() panics for a
\* standard deviation of 0; without a standard deviation the curve is empty.
normal_qq_curve_panics(st) == st.std.some /\ StdIsZero(st.std)

\* ReportFactory::new and the start of create_report: the call's locals.
\* baseline_by, hist_failed, data_before, moved, written and rendered are
\* history.
NewCall(run, config, processor, current_results) ==
    [run |-> run,
     pc |-> IF config.report_directory THEN "setup" ELSE "components",
     at |-> "create_report",
     result |-> "running",
     config |-> config,
     duration_scale |-> processor.scale,
     start_time |-> utc_now,
     end_time |-> utc_now,
     current_results |-> current_results,
     sample_results_by_thread |-> sample_results_by_thread(processor),
     baseline_results |-> NoneResult,
     copy_dir |-> 0,
     entries |-> {},
     baseline_by |-> -1,
     hist_failed |-> FALSE,
     data_before |-> NoFiles(DataNames),
     moved |-> {},
     written |-> {},
     rendered |-> {}]

\* create_report returns: `at` keeps the step that returned.
Returned(call, result) ==
    [call EXCEPT !.pc = "returned", !.at = call.pc, !.result = result]

\* create_report is called for a finished run: the statistics are computed.
CreateReport(processor) ==
    /\ report.pc \in {"idle", "returned"}
    /\ report.run < MaxReports
    /\ \E current_results \in stats_summary(processor.scale, processor.sample_collections) :
          report' = IF current_results = Panicked
                    THEN Returned(NewCall(report.run + 1, report.config, processor,
                                          NoneResult), "Panic")
                    ELSE NewCall(report.run + 1, report.config, processor,
                                 current_results)
    /\ UNCHANGED <<fsys, utc_now, faults>>
    /\ UNCHANGED <<runVars, eval>>

\* setup_report_structure: the report directory, report.html, components/
\* and data/ are created where they are missing.  fail_at = 0: every step
\* succeeds; fail_at = k: the k-th step fails and the error is returned.
SetupReportStructure(fail_at) ==
    /\ report.pc = "setup"
    /\ LET missing == <<~fsys.root, ~fsys.report_html,
                        ~fsys.components_dir, ~fsys.data_dir>>
           done(k) == fail_at = 0 \/ k < fail_at
       IN  /\ fail_at # 0 => missing[fail_at] /\ faults < MaxFaults
           /\ fsys' = [fsys EXCEPT !.root = @ \/ done(1),
                                   !.report_html = @ \/ done(2),
                                   !.components_dir = @ \/ done(3),
                                   !.data_dir = @ \/ done(4)]
    /\ report' = IF fail_at = 0
                 THEN [report EXCEPT !.pc = "baseline"]
                 ELSE Returned(report, "Err")
    /\ Count(fail_at # 0)
    /\ UNCHANGED utc_now
    /\ UNCHANGED <<runVars, eval>>

\* read_data: fs::read_to_string, then serde_json::from_str
read_data(file, fault) == IF fault THEN [ok |-> FALSE] ELSE from_str(file.text)

\* A plausible slip: an unreadable baseline is an error of create_report.
OnBaselineErrorFatal(call) == Returned(call, "Err")

\* read_data(results_file).ok(): an error leaves the call without a baseline.
OnBaselineError(call) == [call EXCEPT !.pc = "dump", !.baseline_results = NoneResult]

\* baseline_results: the StatsSummary of stats.json in baseline_path, or in
\* data/ without a baseline_path; None without the directory or the file.
BaselineResults(fault) ==
    /\ report.pc = "baseline"
    /\ LET dir_exists   == IF report.config.baseline_path
                           THEN fsys.baseline_dir ELSE fsys.data_dir
           results_file == IF report.config.baseline_path
                           THEN fsys.baseline_stats ELSE fsys.data["stats.json"]
       IN  /\ fault => dir_exists /\ Exists(results_file) /\ faults < MaxFaults
           /\ report' =
                IF ~dir_exists \/ ~Exists(results_file)
                THEN [report EXCEPT !.pc = "dump", !.baseline_results = NoneResult]
                ELSE LET read == read_data(results_file, fault)
                     IN  IF read.ok
                         THEN [report EXCEPT !.pc = "dump",
                                             !.baseline_results = read.v,
                                             !.baseline_by = results_file.by]
                         ELSE OnBaselineError(report)
    /\ Count(fault)
    /\ UNCHANGED <<fsys, utc_now>>
    /\ UNCHANGED <<runVars, eval>>

\* A plausible slip: a failed archival is an error of dump_data.
OnHistErrorFatal(call) == [Returned(call, "Err") EXCEPT !.hist_failed = TRUE]

\* `if let Err(err) = hist_results(&dir) { warn!(..) }`: dump_data goes on
\* to write the artifacts.
OnHistError(call) == [call EXCEPT !.pc = "write_stats", !.hist_failed = TRUE]

\* A plausible slip: only the three artifacts are moved.
read_dir_artifacts(data) == {name \in Artifacts : Exists(data[name])}

\* fs::read_dir(from_dir) with the is_dir filter: every file of data/
read_dir(data) == {name \in DataNames : Exists(data[name])}

\* The start of dump_data and of hist_results: with one of the artifacts in
\* data/, the directory data/hist/<now> is created if it is missing and
\* data/ is listed.  fault: "create_dir", "read_dir" or "none".
HistResults(fault) ==
    /\ report.pc = "dump"
    /\ LET archive == \E name \in Artifacts : Exists(fsys.data[name])
           copy_dir == utc_now
           created == [t \in DOMAIN fsys.hist \cup {copy_dir} |->
                          IF t \in DOMAIN fsys.hist THEN fsys.hist[t]
                          ELSE NoFiles(DataNames)]
           call == [report EXCEPT !.data_before = fsys.data]
       IN  /\ fault # "none" => archive /\ faults < MaxFaults
           /\ fault = "create_dir" => copy_dir \notin DOMAIN fsys.hist
           /\ fsys' = IF archive /\ fault # "create_dir"
                      THEN [fsys EXCEPT !.hist = created]
                      ELSE fsys
           /\ report' =
                IF ~archive THEN [call EXCEPT !.pc = "write_stats"]
                ELSE IF fault # "none" THEN OnHistError(call)
                ELSE [call EXCEPT !.pc = "hist_move",
                                  !.copy_dir = copy_dir,
                                  !.entries = read_dir(fsys.data)]
    /\ Count(fault # "none")
    /\ UNCHANGED utc_now
    /\ UNCHANGED <<runVars, eval>>

\* The loop of hist_results: the listed files are renamed into the hist
\* directory one by one (read_dir lists in no particular order).  `done` is
\* the set of files renamed: all of them, or, when a rename fails, those that
\* came before it.
HistMove(done) ==
    /\ report.pc = "hist_move"
    /\ done \subseteq report.entries
    /\ LET fault == done # report.entries
       IN  /\ MayFail(fault)
           /\ fsys' = [fsys EXCEPT
                 !.data = [name \in DOMAIN @ |->
                             IF name \in done THEN Absent ELSE @[name]],
                 !.hist[report.copy_dir] =
                          [name \in DOMAIN @ |->
                             IF name \in done THEN fsys.data[name] ELSE @[name]]]
           /\ report' =
                 IF fault
                 THEN [OnHistError(report) EXCEPT !.entries = @ \ done, !.moved = done]
                 ELSE [report EXCEPT !.entries = {}, !.moved = done,
                                     !.pc = "write_stats"]
           /\ Count(fault)
    /\ UNCHANGED utc_now
    /\ UNCHANGED <<runVars, eval>>

\* A plausible slip: a failed write is logged and create_report goes on.
OnWriteErrorWarned(call, next_pc) == [call EXCEPT !.pc = next_pc]

\* `write_or_update(..)?`: the error is returned by dump_data and create_report.
OnWriteError(call, next_pc) == Returned(call, "Err")

\* write_or_update of dump_data, for stats.json, meta.json and samples.json in
\* this order: the data is serialized and written; a failed fs::write leaves
\* the file as it was.
WriteOrUpdate(fault) ==
    /\ report.pc \in {"write_stats", "write_meta", "write_samples"}
    /\ MayFail(fault)
    /\ LET file == CASE report.pc = "write_stats" -> "stats.json"
                     [] report.pc = "write_meta" -> "meta.json"
                     [] report.pc = "write_samples" -> "samples.json"
           json == CASE report.pc = "write_stats" -> serialize(report.current_results)
                     [] report.pc = "write_meta" -> serialize_ReportMeta(report)
                     [] report.pc = "write_samples" ->
                            serialize_samples(report.sample_results_by_thread)
           next_pc == CASE report.pc = "write_stats" -> "write_meta"
                        [] report.pc = "write_meta" -> "write_samples"
                        [] report.pc = "write_samples" -> "components"
       IN  /\ fsys' = IF fault THEN fsys
                      ELSE [fsys EXCEPT !.data[file] = File(report.run, json)]
           /\ report' = IF fault
                        THEN OnWriteError(report, next_pc)
                        ELSE [report EXCEPT !.pc = next_pc, !.written = @ \cup {file}]
    /\ Count(fault)
    /\ UNCHANGED utc_now
    /\ UNCHANGED <<runVars, eval>>

\* create_components: nothing without current statistics; else the components
\* are built and, with a report directory, written in order.  fail_at = 0:
\* every write succeeds; fail_at = k: the k-th write fails (an error for
\* summary.html, a panic of Plot::to_html for a plot; the failure of a later
\* plot is like that of the first, with more files written).
CreateComponents(fail_at) ==
    /\ report.pc = "components"
    /\ LET st == report.current_results
           bl == report.baseline_results
           n  == Len(ComponentNames)
           panics == \/ normal_qq_curve_panics(st)
                     \/ bl.kind = "Some" /\ normal_qq_curve_panics(bl)
           html == compile(st, bl)
           last == IF fail_at = 0 THEN n ELSE fail_at - 1
           names == {ComponentNames[k] : k \in 1..last}
           text(name) == IF name = "summary.html" THEN html ELSE [plot |-> name]
       IN  /\ fail_at # 0 =>
                /\ st.kind = "Some" /\ ~panics
                /\ report.config.report_directory
                /\ faults < MaxFaults
           /\ IF st.kind # "Some"
              THEN /\ report' = Returned(report, "Ok")
                   /\ fsys' = fsys
              ELSE IF panics
              THEN /\ report' = Returned(report, "Panic")
                   /\ fsys' = fsys
              ELSE IF ~report.config.report_directory
              THEN /\ report' = Returned(report, "Ok")
                   /\ fsys' = fsys
              ELSE /\ report' = [Returned(report,
                                    CASE fail_at = 0 -> "Ok"
                                      [] fail_at = 1 -> "Err"
                                      [] OTHER -> "Panic")
                                 EXCEPT !.rendered = names]
                   /\ fsys' = [fsys EXCEPT !.components =
                                [name \in DOMAIN @ |->
                                    IF name \in names
                                    THEN File(report.run, text(name))
                                    ELSE @[name]]]
    /\ Count(fail_at # 0)
    /\ UNCHANGED utc_now
    /\ UNCHANGED <<runVars, eval>>

\* A second passes between two calls of create_report.
Tick ==
    /\ report.pc = "returned"
    /\ report.run < MaxReports
    /\ utc_now < MaxTime
    /\ utc_now' = utc_now + 1
    /\ UNCHANGED <<fsys, report, faults>>
    /\ UNCHANGED <<runVars, eval>>

----------------------------------------------------------------------------
\* Spec: a whole run of start_run with up to MaxConcurrency workers.

\* What the server answers in Spec: a success or a failure, after one latency.
RunStatusCodes == {200, 503}
RunLengths == {SomeLength(10)}
RunLatencies == {1500000}

\* The configurations of Spec.  The sampling phase never reads the warm-up
\* count, so the runs with more than one warm-up request are explored with at
\* most one timed request; that keeps the state space within reach.
Configs ==
    {c \in [url : {"u"}, method : {"Get", "Post"}, json_payload : {FALSE},
            gql_query : {FALSE}, duration_scale : {"Micro"},
            n_runs : 0..MaxRuns, n_warmup_runs : 0..MaxWarmup,
            concurrency_level : 0..MaxConcurrency] :
        c.n_warmup_runs <= 1 \/ NThreads(c) * c.n_runs <= 1}

Init ==
    /\ cfg \in Configs
    /\ pc = "assemble"
    /\ warmupSent = 0
    /\ timer = FALSE
    /\ tasks = <<>>
    /\ samples_by_thread = <<>>
    /\ stats = NotBuilt
    /\ warmupFailed = FALSE
    /\ attempts = <<>>
    /\ history = <<>>
    /\ NoReport

Next ==
    \/ AssembleRequest
    \/ WarmupOk
    \/ WarmupErr
    \/ StartTimer
    \/ StartSequential
    \/ Spawn
    \/ \E i \in 1..Len(tasks) : Issue(i)
    \/ \E i \in 1..Len(tasks), sc \in RunStatusCodes, cl \in RunLengths,
          lat \in RunLatencies : Respond(i, sc, cl, lat, 0)
    \/ \E i \in 1..Len(tasks), lat \in RunLatencies : TransportError(i, lat)
    \/ Join
    \/ Collect
    \/ CollectSequential

Spec == Init /\ [][Next]_vars

----------------------------------------------------------------------------
\* SpecSampler: one collector from the start of its loop (a sequential run
\* right after the timer was created), with every scale and with the status
\* codes, content lengths and timings a server can answer with.

StatusCodes == {200, 201, 204, 500}
Lengths == {NoLength, SomeLength(10)}
\* 80 us and 1.2 ms
Latencies == {80000, 1200000}
Overheads == {0, 500}

SamplerConfigs ==
    [url : {"u"}, method : {"Get"}, json_payload : {FALSE},
     gql_query : {FALSE}, duration_scale : Scales,
     n_runs : 0..MaxRuns, n_warmup_runs : {0}, concurrency_level : {1}]

InitSampler ==
    /\ cfg \in SamplerConfigs
    /\ pc = "sequential"
    /\ warmupSent = 0
    /\ timer = TRUE
    /\ tasks = <<NewTask(0, n_runs(cfg), cfg.duration_scale)>>
    /\ samples_by_thread = <<>>
    /\ stats = NotBuilt
    /\ warmupFailed = FALSE
    /\ attempts = <<0>>
    /\ history = << <<>> >>
    /\ NoReport

NextSampler ==
    \/ Issue(1)
    \/ \E sc \in StatusCodes, cl \in Lengths, lat \in Latencies, ov \in Overheads :
          Respond(1, sc, cl, lat, ov)
    \/ \E lat \in Latencies : TransportError(1, lat)
    \/ CollectSequential

SpecSampler == InitSampler /\ [][NextSampler]_vars

----------------------------------------------------------------------------
\* SpecStats: the statistics of one collector with up to MaxSamples outcomes
\* of different durations (1, 2 and 5 microseconds) and failures.

StatsStatusCodes == {200, 503}
StatsLatencies == {1000, 2000, 5000}

StatsConfigs ==
    [url : {"u"}, method : {"Get"}, json_payload : {FALSE},
     gql_query : {FALSE}, duration_scale : {"Micro"},
     n_runs : 0..MaxSamples, n_warmup_runs : {0}, concurrency_level : {1}]

InitStats ==
    /\ cfg \in StatsConfigs
    /\ pc = "sequential"
    /\ warmupSent = 0
    /\ timer = TRUE
    /\ tasks = <<NewTask(0, n_runs(cfg), cfg.duration_scale)>>
    /\ samples_by_thread = <<>>
    /\ stats = NotBuilt
    /\ warmupFailed = FALSE
    /\ attempts = <<0>>
    /\ history = << <<>> >>
    /\ NoReport

NextStats ==
    \/ Issue(1)
    \/ \E sc \in StatsStatusCodes, lat \in StatsLatencies :
          Respond(1, sc, SomeLength(10), lat, 0)
    \/ CollectSequential

SpecStats == InitStats /\ [][NextStats]_vars

----------------------------------------------------------------------------
\* SpecReport: up to MaxReports calls of create_report on one report
\* directory, with at most MaxFaults failing file system operations.

\* report_directory and baseline_path of the config (the same for every call)
ReportConfigs ==
    {c \in [report_directory : BOOLEAN, baseline_path : BOOLEAN] :
        c.baseline_path => c.report_directory}

\* What data/ of an existing report directory holds before the first call: a
\* file of the user, or also a stats.json that is no JSON.
InitialData ==
    {[NoFiles(DataNames) EXCEPT !["notes.txt"] = File(0, JsonString("notes"))],
     [NoFiles(DataNames) EXCEPT !["notes.txt"] = File(0, JsonString("notes")),
                                !["stats.json"] = File(0, JsonInvalid)]}

\* The stats.json of the baseline directory: none, the null of a run with no
\* Ok sample, or the summary of a run in milliseconds.
BaselineFiles ==
    {Absent, File(0, JsonNull)}
    \cup {File(0, serialize(st)) :
            st \in UNION {stats_summary("Milli",
                            <<AddAll(NewCollector(0, Len(a), "Milli"), a)>>) :
                          a \in BaselineAnswers}}

InitialFs ==
    {FreshFs}
    \cup {[FreshFs EXCEPT !.root = TRUE, !.report_html = TRUE,
                          !.components_dir = TRUE, !.data_dir = TRUE, !.data = d] :
            d \in InitialData}

InitReport ==
    /\ cfg \in {c \in StatsConfigs : c.n_runs = 0}
    /\ pc = "returned"
    /\ warmupSent = 0
    /\ timer = FALSE
    /\ tasks = <<>>
    /\ samples_by_thread = <<>>
    /\ stats = NotBuilt
    /\ warmupFailed = FALSE
    /\ attempts = <<>>
    /\ history = <<>>
    /\ \E c \in ReportConfigs :
          /\ report = [NoCall EXCEPT !.config = c]
          /\ IF c.baseline_path
             THEN \E dir \in BOOLEAN, file \in BaselineFiles :
                     /\ Exists(file) => dir
                     /\ fsys = [FreshFs EXCEPT !.baseline_dir = dir,
                                               !.baseline_stats = file]
             ELSE fsys \in InitialFs
    /\ utc_now = 0
    /\ faults = 0
    /\ eval = NoEval

NextReport ==
    \/ \E processor \in StatsProcessors : CreateReport(processor)
    \/ \E fail_at \in 0..4 : SetupReportStructure(fail_at)
    \/ \E fault \in BOOLEAN : BaselineResults(fault)
    \/ \E fault \in {"none", "create_dir", "read_dir"} : HistResults(fault)
    \/ \E done \in SUBSET DataNames : HistMove(done)
    \/ \E fault \in BOOLEAN : WriteOrUpdate(fault)
    \/ \E fail_at \in 0..2 : CreateComponents(fail_at)
    \/ Tick

SpecReport == InitReport /\ [][NextReport]_vars

----------------------------------------------------------------------------
\* The statistical testers (reporting/stats.rs)

RatSub(a, b) == Rat(a.num * b.den - b.num * a.den, a.den * b.den)
RatLess(a, b) == a.num * b.den < b.num * a.den

Range(s) == {s[k] : k \in DOMAIN s}

\* PerformanceOutcome, and the None of a test that cannot be made
Inconclusive == [kind |-> "Inconclusive"]
Regressed(p_value) == [kind |-> "Regressed", p_value |-> p_value]
Improved(p_value) == [kind |-> "Improved", p_value |-> p_value]
NoOutcome == [kind |-> "None"]

\* PermutationTester::new(current_samples, baseline_samples)
PermutationTester_new(current_samples, baseline_samples) ==
    [current_samples |-> current_samples,
     baseline_samples |-> baseline_samples,
     current_len |-> Len(current_samples),
     baseline_len |-> Len(baseline_samples),
     total_len |-> Len(current_samples) + Len(baseline_samples)]

\* PermutationTester::idx_value: the pool is the baseline samples followed by
\* the current samples (idx counts from 0).
idx_value(t, idx) ==
    IF idx < t.baseline_len
    THEN SomeF64(t.baseline_samples[idx + 1])
    ELSE IF t.baseline_len <= idx /\ idx < t.total_len
    THEN SomeF64(t.current_samples[idx - t.baseline_len + 1])
    ELSE NoneF64

\* The stream of ChaCha8Rng::seed_from_u64(42) sampled with
\* Uniform::new(0, total_len): its draw number pos (from 0).  The stream is
\* kept as a period that repeats.
sample(rng, pos) == rng[(pos % Len(rng)) + 1]

\* A plausible slip: an index drawn before is taken again.
never_contains(baseline_indices, idx) == FALSE

\* baseline_indices.contains(&idx)
contains(baseline_indices, idx) == idx \in Range(baseline_indices)

\* The while loop of simulate_paired_distribution: indices are drawn until
\* baseline_len different ones were seen.
RECURSIVE draw_baseline_indices(_, _, _, _)
draw_baseline_indices(t, rng, pos, baseline_indices) ==
    IF Len(baseline_indices) >= t.baseline_len
    THEN [indices |-> baseline_indices, pos |-> pos]
    ELSE LET idx == sample(rng, pos)
         IN  draw_baseline_indices(t, rng, pos + 1,
                IF contains(baseline_indices, idx)
                THEN baseline_indices
                ELSE Append(baseline_indices, idx))

\* PermutationTester::simulate_paired_distribution: the values at the drawn
\* indices, in the order drawn, and the values at the other indices, in the
\* order of the pool.
simulate_paired_distribution(t, rng, pos) ==
    LET drawn == draw_baseline_indices(t, rng, pos, <<>>)
        NotDrawn(idx) == idx \notin Range(drawn.indices)
        others == SelectSeq([k \in 1..t.total_len |-> k - 1], NotDrawn)
    IN  [baseline |-> [k \in 1..Len(drawn.indices) |-> idx_value(t, drawn.indices[k]).v],
         current  |-> [k \in 1..Len(others) |-> idx_value(t, others[k]).v],
         pos      |-> drawn.pos,
         baseline_indices |-> drawn.indices,
         current_indices  |-> others]

\* PermutationTester::sample_mean_differences
RECURSIVE sample_mean_differences(_, _, _, _)
sample_mean_differences(t, rng, pos, n_samples) ==
    IF n_samples = 0 THEN <<>>
    ELSE LET sim == simulate_paired_distribution(t, rng, pos)
             baseline_mean == Rat(SumSeq(sim.baseline), t.baseline_len)
             current_mean  == Rat(SumSeq(sim.current), t.current_len)
         IN  <<RatSub(baseline_mean, current_mean)>>
                \o sample_mean_differences(t, rng, sim.pos, n_samples - 1)

\* PermutationTester::test
PermutationTester_test(t, n_samples, alpha, rng) ==
    IF t.baseline_len = 0 \/ t.current_len = 0 THEN NoOutcome
    ELSE LET mean_diff_samples == sample_mean_differences(t, rng, 0, n_samples)
             baseline_mean == Rat(SumSeq(t.baseline_samples), t.baseline_len)
             current_mean  == Rat(SumSeq(t.current_samples), t.current_len)
             test_diff == RatSub(baseline_mean, current_mean)
             zero == Rat(0, 1)
             extreme(diff) ==
                \/ RatLeq(zero, test_diff) /\ RatLeq(test_diff, diff)
                \/ RatLeq(diff, test_diff) /\ RatLess(test_diff, zero)
             n_extreme_diffs ==
                Cardinality({k \in 1..n_samples : extreme(mean_diff_samples[k])})
             p_value == Rat(n_extreme_diffs, n_samples)
         IN  IF RatLess(alpha, p_value) THEN Inconclusive
             ELSE IF RatLess(baseline_mean, current_mean)
             THEN Regressed(p_value)
             ELSE Improved(p_value)

\* No run and no report: the testers are called on their own.
NoRun ==
    /\ cfg \in {c \in StatsConfigs : c.n_runs = 0}
    /\ pc = "returned"
    /\ warmupSent = 0
    /\ timer = FALSE
    /\ tasks = <<>>
    /\ samples_by_thread = <<>>
    /\ stats = NotBuilt
    /\ warmupFailed = FALSE
    /\ attempts = <<>>
    /\ history = <<>>
    /\ fsys = FreshFs
    /\ report = NoCall
    /\ utc_now = 0
    /\ faults = 0

\* SpecPermutation: PermutationTester::test on two samples and on the same
\* two samples swapped, with the same n_samples, alpha and random stream.
TestDurations == {10, 12}
TestSamples == UNION {[1..n -> TestDurations] : n \in 1..MaxTestLen}
PermutationAlphas == {Rat(1, 20), Rat(1, 1)}

\* The periods of the stream: every index of the pool once
Streams(total_len) ==
    {rng \in [1..total_len -> 0..(total_len - 1)] :
        \A j, k \in 1..total_len : rng[j] = rng[k] => j = k}

InitPermutation ==
    /\ NoRun
    /\ \E baseline_samples \in TestSamples, current_samples \in TestSamples,
          n_samples \in 1..MaxPermutations, alpha \in PermutationAlphas :
          \E rng \in Streams(Len(baseline_samples) + Len(current_samples)) :
             eval = [fn |-> "permutation_test", pc |-> "called",
                     baseline_samples |-> baseline_samples,
                     current_samples |-> current_samples,
                     n_samples |-> n_samples, alpha |-> alpha, rng |-> rng]

PermutationTest ==
    /\ eval.fn = "permutation_test"
    /\ eval.pc = "called"
    /\ eval' = [fn |-> "permutation_test", pc |-> "done",
                baseline_samples |-> eval.baseline_samples,
                current_samples |-> eval.current_samples,
                n_samples |-> eval.n_samples, alpha |-> eval.alpha, rng |-> eval.rng,
                outcome |-> PermutationTester_test(
                    PermutationTester_new(eval.current_samples, eval.baseline_samples),
                    eval.n_samples, eval.alpha, eval.rng),
                swapped |-> PermutationTester_test(
                    PermutationTester_new(eval.baseline_samples, eval.current_samples),
                    eval.n_samples, eval.alpha, eval.rng)]
    /\ UNCHANGED <<runVars, reportVars>>

SpecPermutation == InitPermutation /\ [][PermutationTest]_vars

\* NormalParams
NormalParams(mean, std, n_samples) == [mean |-> mean, std |-> std, n_samples |-> n_samples]

\* test_statistics: t = (np_base.mean - np.mean) / sqrt(s2) with
\* s2 = np_base.std^2 / np_base.n_samples + np.std^2 / np.n_samples, kept as
\* its numerator and s2; None for |s2| < 1e-12 (here: s2 = 0).
test_statistics(np_base, np) ==
    LET s2 == Rat(np_base.std * np_base.std * np.n_samples
                    + np.std * np.std * np_base.n_samples,
                  np_base.n_samples * np.n_samples)
    IN  IF s2.num = 0 THEN NoneF64
        ELSE SomeF64([num |-> np_base.mean - np.mean, s2 |-> s2])

\* A plausible slip: the p-value of t, not of |t|
signed(t) == t

\* t.abs()
abs(t) == [t EXCEPT !.num = IF @ < 0 THEN 0 - @ ELSE @]

\* unsigned_p_value: 1 - cdf(|t|) of the standard normal distribution, kept
\* as the argument of the cdf
unsigned_p_value(np_base, np) ==
    LET t == test_statistics(np_base, np)
    IN  IF ~t.some THEN NoneF64 ELSE SomeF64([one_minus_cdf_at |-> abs(t.v)])

\* alpha with the square of its quantile z, where 1 - cdf(z) = alpha (in
\* hundredths; 0 from alpha = 1/2 on: a p-value is greater than no such alpha)
Alphas ==
    {[alpha |-> Rat(5, 1000), z_sq |-> Rat(663, 100)],
     [alpha |-> Rat(1, 100), z_sq |-> Rat(541, 100)],
     [alpha |-> Rat(5, 100), z_sq |-> Rat(271, 100)],
     [alpha |-> Rat(1, 2), z_sq |-> Rat(0, 1)],
     [alpha |-> Rat(1, 1), z_sq |-> Rat(0, 1)]}

\* p_value > alpha: 1 - cdf(x) > 1 - cdf(z) exactly when x < z; for x < 0 it
\* is greater than 1/2.
p_value_greater(p_value, alpha) ==
    LET x == p_value.one_minus_cdf_at
    IN  IF x.num < 0 THEN RatLess(alpha.alpha, Rat(1, 1))
        ELSE RatLess(Rat(x.num * x.num * x.s2.den, x.s2.num), alpha.z_sq)

\* performance_outcome
performance_outcome(np_base, np, alpha) ==
    LET p_value == unsigned_p_value(np_base, np)
    IN  IF ~p_value.some THEN NoOutcome
        ELSE IF p_value_greater(p_value.v, alpha) THEN Inconclusive
        ELSE IF np_base.mean < np.mean THEN Regressed(p_value.v)
        ELSE Improved(p_value.v)

\* SpecAnalytic: performance_outcome on two NormalParams and on the same two
\* swapped, with the same alpha.
TestNormalParams ==
    {NormalParams(mean, std, n_samples) :
        mean \in {500, 520}, std \in {0, 45, 50}, n_samples \in {50, 80}}

InitAnalytic ==
    /\ NoRun
    /\ \E np_base \in TestNormalParams, np \in TestNormalParams, alpha \in Alphas :
          eval = [fn |-> "performance_outcome", pc |-> "called",
                  np_base |-> np_base, np |-> np, alpha |-> alpha]

AnalyticTest ==
    /\ eval.fn = "performance_outcome"
    /\ eval.pc = "called"
    /\ eval' = [fn |-> "performance_outcome", pc |-> "done",
                np_base |-> eval.np_base, np |-> eval.np, alpha |-> eval.alpha,
                p_value |-> unsigned_p_value(eval.np_base, eval.np),
                outcome |-> performance_outcome(eval.np_base, eval.np, eval.alpha),
                swapped_p_value |-> unsigned_p_value(eval.np, eval.np_base),
                swapped |-> performance_outcome(eval.np, eval.np_base, eval.alpha)]
    /\ UNCHANGED <<runVars, reportVars>>

SpecAnalytic == InitAnalytic /\ [][AnalyticTest]_vars

\* BootstrapSampler::simulate_sample_distr: n_distr draws from the stream,
\* each the sample at the index drawn
simulate_sample_distr(samples, rng, pos, n_distr) ==
    [k \in 1..n_distr |-> samples[sample(rng, pos + k - 1) + 1]]

\* BootstrapSampler::bootstrap_samples: n_samples resamples, one after the
\* other from the same stream
bootstrap_samples(samples, rng, pos, n_distr, n_samples) ==
    [j \in 1..n_samples |->
        simulate_sample_distr(samples, rng, pos + (j - 1) * n_distr, n_distr)]

\* A plausible slip: a generator that is kept between the calls
continued_rng(e) == Len(e.calls) * e.n * e.n_samples

\* ChaCha8Rng::seed_from_u64(42): every call starts the stream anew
seed_from_u64(e) == 0

\* BootstrapSampler::sample_means: the resamples are kept with their means
\* (sum / len, 0 / 0 for an empty resample).
sample_means(samples, n, n_samples, rng, pos) ==
    LET bs_samples == bootstrap_samples(samples, rng, pos, n, n_samples)
    IN  [bs_samples |-> bs_samples,
         means |-> [j \in 1..n_samples |->
                      Rat(SumSeq(bs_samples[j]), Len(bs_samples[j]))]]

\* SpecBootstrap: sample_means is called twice on the durations of a summary
\* with the same draw size and number of resamples.
InitBootstrap ==
    /\ NoRun
    /\ \E samples \in TestSamples, n \in 0..MaxDraws, n_samples \in 0..MaxBootstrap :
          \E rng \in Streams(Len(samples)) :
             eval = [fn |-> "sample_means", samples |-> samples, n |-> n,
                     n_samples |-> n_samples, rng |-> rng, calls |-> <<>>]

SampleMeans ==
    /\ eval.fn = "sample_means"
    /\ Len(eval.calls) < 2
    /\ eval' = [eval EXCEPT !.calls =
                  Append(@, sample_means(eval.samples, eval.n, eval.n_samples,
                                         eval.rng, seed_from_u64(eval)))]
    /\ UNCHANGED <<runVars, reportVars>>

SpecBootstrap == InitBootstrap /\ [][SampleMeans]_vars

\* SpecPercentile: percentile on a sorted sequence with n its length.
SortedSeqs(len) ==
    {q \in [1..len -> {9, 28, 63}] : \A k \in 1..(len - 1) : q[k] <= q[k + 1]}

\* The ten samples of tests::percentile, sorted
PercentileTable == <<9, 12, 28, 55, 63, 82, 91, 92, 96, 97>>

PercentileSamples ==
    UNION {SortedSeqs(len) : len \in 1..MaxPercentileLen} \cup {PercentileTable}

PercentileLevels ==
    {Rat(0, 1), Rat(1, 4), Rat(1, 3), Rat(1, 2), Rat(3, 4), Rat(1, 1)}

InitPercentile ==
    /\ NoRun
    /\ \E samples \in PercentileSamples, level \in PercentileLevels :
          eval = [fn |-> "percentile", pc |-> "called",
                  samples |-> samples, level |-> level, n |-> Len(samples)]

Percentile ==
    /\ eval.fn = "percentile"
    /\ eval.pc = "called"
    /\ eval' = [fn |-> "percentile", pc |-> "done",
                samples |-> eval.samples, level |-> eval.level, n |-> eval.n,
                result |-> percentile(eval.samples, eval.level, eval.n)]
    /\ UNCHANGED <<runVars, reportVars>>

SpecPercentile == InitPercentile /\ [][Percentile]_vars

\* SpecBuild: the whole run for every method of the Method enum, with and
\* without a json payload and a gql query.
BuildConfigs ==
    [url : {"u"}, method : {"Get", "Post", "Put", "Delete"},
     json_payload : BOOLEAN, gql_query : BOOLEAN, duration_scale : {"Micro"},
     n_runs : 0..1, n_warmup_runs : 0..1,
     concurrency_level : 0..MaxConcurrency]

InitBuild ==
    /\ cfg \in BuildConfigs
    /\ pc = "assemble"
    /\ warmupSent = 0
    /\ timer = FALSE
    /\ tasks = <<>>
    /\ samples_by_thread = <<>>
    /\ stats = NotBuilt
    /\ warmupFailed = FALSE
    /\ attempts = <<>>
    /\ history = <<>>
    /\ NoReport

SpecBuild == InitBuild /\ [][Next]_vars

\* SpecCli: main of burl-cli, from the parsed command line to the exit code.
\* The specs file, the client construction, the run and the report are given
\* by their outcomes.

\* Exit codes of a Rust process: main returned Ok, main returned Err, a panic
EXIT_SUCCESS == 0
EXIT_FAILURE == 1
EXIT_PANIC == 101
Running == 0 - 1

\* parse_toml: None for a missing file, an unreadable file and a TOML error
parse_toml(file) == file = "valid"

CliInputs ==
    [cmd : {"FromToml", "Get"},
     file : {"missing", "unreadable", "invalid", "valid"},
     url : BOOLEAN,
     client : {"Ok", "Err"},
     run : {"None", "Summary", "SummaryNoStats", "Panic"},
     report : {"Ok", "SetupErr"}]

InitCli ==
    /\ NoRun
    /\ \E in \in CliInputs :
          eval = [fn |-> "main", pc |-> "args", in |-> in, specs |-> FALSE,
                  warnings |-> 0, exit_code |-> Running]

\* match args.cmd { FromToml => parse_toml(..), Get => from_get_url(url) }
CliSpecs ==
    /\ eval.fn = "main"
    /\ eval.pc = "args"
    /\ LET specs == IF eval.in.cmd = "FromToml" THEN parse_toml(eval.in.file)
                    ELSE eval.in.url
       IN  eval' = [eval EXCEPT !.specs = specs,
                                !.warnings = IF specs THEN @ ELSE @ + 1,
                                !.pc = IF specs THEN "init" ELSE "finish"]
    /\ UNCHANGED <<runVars, reportVars>>

\* BenchClient::init(&specs)?
CliInit ==
    /\ eval.fn = "main"
    /\ eval.pc = "init"
    /\ eval' = IF eval.in.client = "Ok"
               THEN [eval EXCEPT !.pc = "run"]
               ELSE [eval EXCEPT !.pc = "exited", !.exit_code = EXIT_FAILURE]
    /\ UNCHANGED <<runVars, reportVars>>

\* bencher.run().await
CliRun ==
    /\ eval.fn = "main"
    /\ eval.pc = "run"
    /\ eval' = CASE eval.in.run = "Panic" ->
                      [eval EXCEPT !.pc = "exited", !.exit_code = EXIT_PANIC]
                 [] eval.in.run = "None" -> [eval EXCEPT !.pc = "finish"]
                 [] OTHER -> [eval EXCEPT !.pc = "report"]
    /\ UNCHANGED <<runVars, reportVars>>

\* ReportFactory::new(..).create_report(), an Err is logged
CliReport ==
    /\ eval.fn = "main"
    /\ eval.pc = "report"
    /\ eval' = [eval EXCEPT !.pc = "finish",
                            !.warnings = IF eval.in.report = "Ok" THEN @ ELSE @ + 1]
    /\ UNCHANGED <<runVars, reportVars>>

\* trace!("Finished"); Ok(())
CliFinish ==
    /\ eval.fn = "main"
    /\ eval.pc = "finish"
    /\ eval' = [eval EXCEPT !.pc = "exited", !.exit_code = EXIT_SUCCESS]
    /\ UNCHANGED <<runVars, reportVars>>

NextCli ==
    \/ CliSpecs
    \/ CliInit
    \/ CliRun
    \/ CliReport
    \/ CliFinish

SpecCli == InitCli /\ [][NextCli]_vars

\* SpecLive: the whole run under the scheduling of the tokio runtime.
\* start_run is polled until it returns and every spawned task is polled until
\* it finishes, so each step of the orchestrator and of each worker that stays
\* enabled is taken; every request sent is answered or fails.
Completes(i) ==
    \/ \E sc \in RunStatusCodes, cl \in RunLengths, lat \in RunLatencies :
          Respond(i, sc, cl, lat, 0)
    \/ \E lat \in RunLatencies : TransportError(i, lat)

Fairness ==
    /\ WF_vars(AssembleRequest)
    /\ WF_vars(WarmupOk \/ WarmupErr)
    /\ WF_vars(StartTimer)
    /\ WF_vars(StartSequential)
    /\ WF_vars(Spawn)
    /\ \A i \in 1..MaxConcurrency : WF_vars(Issue(i))
    /\ \A i \in 1..MaxConcurrency : WF_vars(Completes(i))
    /\ WF_vars(Join)
    /\ WF_vars(Collect)
    /\ WF_vars(CollectSequential)

\* The configurations of SpecLive: at most MaxLiveRequests timed requests
LiveConfigs ==
    {c \in [url : {"u"}, method : {"Get", "Post"}, json_payload : {FALSE},
            gql_query : {FALSE}, duration_scale : {"Micro"},
            n_runs : 0..MaxRuns, n_warmup_runs : 0..1,
            concurrency_level : 0..MaxConcurrency] :
        NThreads(c) * c.n_runs <= MaxLiveRequests}

InitLive ==
    /\ cfg \in LiveConfigs
    /\ pc = "assemble"
    /\ warmupSent = 0
    /\ timer = FALSE
    /\ tasks = <<>>
    /\ samples_by_thread = <<>>
    /\ stats = NotBuilt
    /\ warmupFailed = FALSE
    /\ attempts = <<>>
    /\ history = <<>>
    /\ NoReport

SpecLive == InitLive /\ [][Next]_vars /\ Fairness

\* SpecNormalParams: NormalParams::from on the summaries of runs of up to
\* MaxSamples requests, answered with status 200 after 2 ms or 5 ms or with
\* status 503 or 404.
NormalAnswers ==
    {Answer(200, 2000000), Answer(200, 5000000), Answer(503, 2000000),
     Answer(404, 2000000)}

NormalSummaries ==
    {st \in UNION {stats_summary("Micro", <<AddAll(NewCollector(0, Len(a), "Micro"), a)>>) :
                     a \in UNION {[1..n -> NormalAnswers] : n \in 1..MaxSamples}} :
        st.kind = "Some"}

\* impl From<&StatsSummary> for NormalParams: std.unwrap() panics on None
NormalParams_from(st) ==
    IF ~st.std.some
    THEN [panic |-> TRUE]
    ELSE [panic |-> FALSE, np |-> NormalParams(st.mean, st.std, st.n_ok)]

InitNormalParams ==
    /\ NoRun
    /\ \E st \in NormalSummaries :
          eval = [fn |-> "NormalParams::from", pc |-> "called", stats |-> st]

NormalParamsFrom ==
    /\ eval.fn = "NormalParams::from"
    /\ eval.pc = "called"
    /\ eval' = [fn |-> "NormalParams::from", pc |-> "done", stats |-> eval.stats,
                result |-> NormalParams_from(eval.stats)]
    /\ UNCHANGED <<runVars, reportVars>>

SpecNormalParams == InitNormalParams /\ [][NormalParamsFrom]_vars

\* SpecSimulate: the simulated permutations of one sample_mean_differences
\* call, one after the other on the same stream.  The stream is a period in
\* which every index of the pool comes up and one comes up twice.
TestSample(n) == [k \in 1..n |-> IF k % 2 = 1 THEN 10 ELSE 12]

RepeatingStreams(total_len) ==
    {rng \in [1..(total_len + 1) -> 0..(total_len - 1)] :
        \A idx \in 0..(total_len - 1) : \E j \in 1..(total_len + 1) : rng[j] = idx}

InitSimulate ==
    /\ NoRun
    /\ \E baseline_len \in 1..MaxTestLen, current_len \in 1..MaxTestLen :
          \E rng \in RepeatingStreams(baseline_len + current_len) :
             eval = [fn |-> "simulate_paired_distribution",
                     tester |-> PermutationTester_new(TestSample(current_len),
                                                      TestSample(baseline_len)),
                     rng |-> rng, pos |-> 0, sims |-> <<>>]

\* One iteration of the loop of sample_mean_differences
Simulate ==
    /\ eval.fn = "simulate_paired_distribution"
    /\ Len(eval.sims) < MaxPermutations
    /\ LET sim == simulate_paired_distribution(eval.tester, eval.rng, eval.pos)
       IN  eval' = [eval EXCEPT !.sims = Append(@, [start |-> eval.pos, sim |-> sim]),
                                !.pos = sim.pos]
    /\ UNCHANGED <<runVars, reportVars>>

SpecSimulate == InitSimulate /\ [][Simulate]_vars

----------------------------------------------------------------------------
\* Properties

IsSortedAsc(s) == \A j \in 1..Len(s) - 1 : s[j] <= s[j + 1]

Results(i) == tasks[i].collector.results

Responses(i) == SelectSeq(history[i], LAMBDA e : e.kind = "response")

TransportErrors(i) == Len(SelectSeq(history[i], LAMBDA e : e.kind = "error"))

InFlight(i) == IF tasks[i].inflight THEN 1 ELSE 0

\* start_run got as far as the statistics.
StatsBuilt == pc = "returned" /\ timer

\* C1: every StatsSummary has its durations sorted ascending and as many
\* durations as its n_ok says.
C1_DurationsSortedAndCounted ==
    stats.kind = "Some" =>
        /\ IsSortedAsc(stats.durations)
        /\ Len(stats.durations) = stats.n_ok

\* C2: the per-worker n_ok of stats_by_thread add up to the aggregate n_ok,
\* and the per-worker n_errors to the aggregate n_errors.
C2_PerWorkerCountsAddUp ==
    stats.kind = "Some" =>
        LET by == stats.stats_by_thread
            m  == Len(samples_by_thread)
        IN  /\ SumSeq([j \in 1..m |-> by[j - 1].n_ok]) = stats.n_ok
            /\ SumSeq([j \in 1..m |-> by[j - 1].n_errors]) = stats.n_errors

\* C3: a run has max(1, concurrency) workers, worker i has thread_idx i, and
\* once the statistics are built every worker has sent exactly n_runs timed
\* requests (never more on the way), N * n_runs in all.
C3_RunsPerWorker ==
    LET N == IF cfg.concurrency_level >= 1 THEN cfg.concurrency_level ELSE 1
    IN  /\ Len(tasks) <= N
        /\ \A i \in 1..Len(tasks) :
              /\ tasks[i].collector.thread_idx = i - 1
              /\ attempts[i] <= cfg.n_runs
        /\ StatsBuilt =>
              /\ Len(tasks) = N
              /\ \A i \in 1..N : attempts[i] = cfg.n_runs
              /\ SumSeq(attempts) = N * cfg.n_runs

C3_Witness ==
    /\ StatsBuilt
    /\ cfg.concurrency_level = 2
    /\ cfg.n_runs = 2
    /\ attempts = <<2, 2>>

\* C4: the timer exists, a worker exists or a timed request was sent only
\* when all n_warmup_runs warm-up requests have completed.
C4_WarmupFirst ==
    (timer \/ tasks # <<>> \/ \E i \in 1..Len(attempts) : attempts[i] > 0)
        => warmupSent = cfg.n_warmup_runs

C4_Witness ==
    /\ cfg.n_warmup_runs >= 1
    /\ timer
    /\ \E i \in 1..Len(attempts) : attempts[i] > 0

\* C5: the statistics are built only when every worker has finished its
\* loop, from the collectors of all N workers as the workers left them, and a
\* summary has one stats_by_thread entry for each thread_idx 0..N-1.
C5_StatsAfterAllWorkers ==
    StatsBuilt =>
        /\ Len(tasks) = NThreads(cfg)
        /\ \A i \in 1..Len(tasks) : TaskFinished(tasks[i])
        /\ samples_by_thread = [i \in 1..Len(tasks) |-> tasks[i].collector]
        /\ stats.kind = "Some" =>
              /\ DOMAIN stats.stats_by_thread = 0..(NThreads(cfg) - 1)
              /\ \A i \in 1..Len(tasks) :
                    stats.stats_by_thread[i - 1] = ThreadStatsFrom(tasks[i].collector)

C5_Witness ==
    /\ StatsBuilt
    /\ stats.kind = "Some"
    /\ Len(tasks) = 2
    /\ \A i \in 1..2 : Len(Results(i)) >= 1

\* C6: in every collector the outcomes are in the order their requests were
\* sent, and there are at most as many outcomes as requests sent so far, which
\* are at most n_runs.
C6_IssuanceOrder ==
    \A i \in 1..Len(tasks) :
        /\ \A j \in 1..Len(Results(i)) - 1 :
              Results(i)[j].attempt < Results(i)[j + 1].attempt
        /\ Len(Results(i)) <= attempts[i]
        /\ attempts[i] <= tasks[i].collector.n_runs

C6_Witness ==
    \E i \in 1..Len(tasks) :
        /\ Len(Results(i)) = 2
        /\ Results(i)[1].kind # Results(i)[2].kind

\* C7: a transport error records nothing and the worker goes on: for every
\* worker n_ok + n_errors is the number of requests answered, that is the
\* requests completed less the transport errors, n_errors counts exactly the
\* responses with a status other than 200, and a worker that ends its loop has
\* sent n_runs requests whatever failed.
C7_TransportErrorsSkipped ==
    \A i \in 1..Len(tasks) :
        LET ts   == ThreadStatsFrom(tasks[i].collector)
            resp == Responses(i)
        IN  /\ Len(history[i]) = attempts[i] - InFlight(i)
            /\ ts.n_ok + ts.n_errors = attempts[i] - InFlight(i) - TransportErrors(i)
            /\ ts.n_errors = Cardinality({j \in 1..Len(resp) : resp[j].status_code # 200})
            /\ TaskFinished(tasks[i]) => attempts[i] = cfg.n_runs

C7_Witness ==
    /\ StatsBuilt
    /\ stats.kind = "Some"
    /\ \E i \in 1..Len(tasks) :
          /\ history[i][1].kind = "error"
          /\ Len(Results(i)) = 1

\* C8: after a warm-up transport error start_run has returned None and does
\* nothing more: no further warm-up request, no timer, no worker, no timed
\* request.
C8_WarmupErrorEndsRun ==
    warmupFailed =>
        /\ pc = "returned"
        /\ stats = NoneResult
        /\ ~timer
        /\ tasks = <<>>
        /\ attempts = <<>>
        /\ ~ENABLED Next

C8_Witness ==
    /\ warmupFailed
    /\ warmupSent + 1 < cfg.n_warmup_runs

\* C9: the j-th outcome of a collector is Ok exactly when the j-th response
\* had status 200, otherwise Failed with the status of that response; only
\* the 200 responses contribute a duration and bytes.
C9_OnlyStatus200IsOk ==
    \A i \in 1..Len(tasks) :
        LET resp == Responses(i)
            ok   == SelectSeq(resp, LAMBDA e : e.status_code = 200)
            ts   == ThreadStatsFrom(tasks[i].collector)
        IN  /\ Len(Results(i)) = Len(resp)
            /\ \A j \in 1..Len(resp) :
                  /\ Results(i)[j].kind = "Ok" <=> resp[j].status_code = 200
                  /\ Results(i)[j].kind = "Failed" <=> resp[j].status_code # 200
                  /\ Results(i)[j].kind = "Failed" =>
                        Results(i)[j].status_code = resp[j].status_code
            /\ ts.durations =
                  [j \in 1..Len(ok) |-> elapsed(cfg.duration_scale, ok[j].latency)]
            /\ ts.total_bytes =
                  SumSeq([j \in 1..Len(ok) |->
                            IF ok[j].content_length.some
                            THEN ok[j].content_length.v ELSE 0])

C9_Witness ==
    \E i \in 1..Len(tasks) :
        /\ Len(Results(i)) = 2
        /\ Responses(i)[1].status_code = 204
        /\ Responses(i)[1].content_length.some
        /\ Results(i)[1].kind = "Failed"
        /\ Results(i)[2].kind = "Ok"

\* C10: every Ok outcome has measurement_start <= measurement_end and a
\* duration above zero, whatever the scale.
C10_OkTimesPositive ==
    \A i \in 1..Len(tasks) :
        \A j \in 1..Len(Results(i)) :
            Results(i)[j].kind = "Ok" =>
                /\ Results(i)[j].measurement_start <= Results(i)[j].measurement_end
                /\ Results(i)[j].duration > 0

\* The durations of the Ok outcomes of all collectors handed to the statistics.
OkDurations ==
    Concat([j \in 1..Len(samples_by_thread) |->
               ThreadStatsFrom(samples_by_thread[j]).durations])

\* C11: the statistics are None exactly when no collector holds an Ok
\* outcome, and a StatsSummary in every other case.
C11_NoneIffNoOkSample ==
    StatsBuilt =>
        /\ OkDurations = <<>> => stats = NoneResult
        /\ OkDurations # <<>> => stats.kind = "Some"

\* C12: in every StatsSummary the durations are sorted, min is the first and
\* the least of them, max the last and the greatest, and
\* quartile_fst <= median <= quartile_trd.
C12_MinMaxQuartiles ==
    stats.kind = "Some" =>
        LET d == stats.durations
        IN  /\ IsSortedAsc(d)
            /\ stats.min = d[1]
            /\ stats.max = d[Len(d)]
            /\ \A j \in 1..Len(OkDurations) :
                  stats.min <= OkDurations[j] /\ OkDurations[j] <= stats.max
            /\ RatLeq(stats.quartile_fst, stats.median)
            /\ RatLeq(stats.median, stats.quartile_trd)

C12_Witness ==
    /\ stats.kind = "Some"
    /\ Len(stats.durations) = 4
    /\ OkDurations = <<5, 1, 2, 1>>
    /\ stats.quartile_fst = Rat(2, 2)
    /\ stats.median = Rat(3, 2)
    /\ stats.quartile_trd = Rat(7, 2)

\* The fields the statistical testers read are the same in both summaries.
SameForTesters(read, original) ==
    /\ read.scale = original.scale
    /\ read.mean = original.mean
    /\ read.std = original.std
    /\ read.n_ok = original.n_ok
    /\ read.durations = original.durations

\* C18: a StatsSummary written to stats.json and read back as a baseline has
\* the scale, mean, std, n_ok and durations of the original, with the
\* StatsSummary of burl::stats and with the one of burl::reporting.
C18_SerializationRoundTrip ==
    stats.kind = "Some" =>
        /\ from_str(serialize_StatsSummary(stats)).ok
        /\ SameForTesters(from_str(serialize_StatsSummary(stats)).v, stats)
        /\ from_str_reporting(serialize_reporting_StatsSummary(stats)).ok
        /\ SameForTesters(
              from_str_reporting(serialize_reporting_StatsSummary(stats)).v, stats)

\* The report directory tree of setup_report_structure
TreeExists == fsys.root /\ fsys.report_html /\ fsys.components_dir /\ fsys.data_dir

\* The current call of create_report has a report directory.
InReportCall == report.pc # "idle" /\ report.config.report_directory

\* C13: create_report with a report directory ensures the tree, then loads the
\* baseline, then archives, then writes the three artifacts, then renders: the
\* steps after the first find the tree; a baseline from <report>/data is the
\* stats.json that was there before the archival, written by an earlier call
\* and never by this one; an artifact is written only after the archival is
\* over (done or failed); a component is rendered only after stats.json,
\* meta.json and samples.json were all written by this call.
C13_StepOrder ==
    InReportCall =>
        /\ report.pc \notin {"setup", "returned"} => TreeExists
        /\ report.baseline_results.kind = "Some" => report.baseline_by < report.run
        /\ (/\ report.baseline_results.kind = "Some"
            /\ ~report.config.baseline_path
            /\ report.pc # "dump") =>
                /\ Exists(report.data_before["stats.json"])
                /\ report.data_before["stats.json"].by = report.baseline_by
        /\ report.written # {} => report.entries = {} \/ report.hist_failed
        /\ report.pc \in {"baseline", "dump", "hist_move"} => report.written = {}
        /\ \A name \in DataNames :
              (Exists(fsys.data[name]) /\ fsys.data[name].by = report.run)
                 <=> name \in report.written
        /\ report.rendered # {} => report.written = Artifacts
        /\ \A name \in DOMAIN fsys.components :
              (Exists(fsys.components[name]) /\ fsys.components[name].by = report.run)
                 <=> name \in report.rendered

\* The second call reads the stats.json of the first as its baseline, archives
\* the three artifacts of the first, writes its own and renders every component.
C13_Witness ==
    /\ InReportCall
    /\ report.run = 2
    /\ report.result = "Ok"
    /\ ~report.config.baseline_path
    /\ report.baseline_results.kind = "Some"
    /\ report.baseline_by = 1
    /\ report.moved = Artifacts
    /\ report.written = Artifacts
    /\ report.rendered = DOMAIN fsys.components

\* dump_data found one of the three artifacts in data/ and is past hist_results.
ArchiveDue ==
    /\ InReportCall
    /\ report.pc \in {"write_stats", "write_meta", "write_samples", "components", "returned"}
    /\ \E name \in Artifacts : Exists(report.data_before[name])

\* Every file that was in data/ is in the hist directory of the call, with its
\* name and contents, and data/ holds no file but artifacts of the current call.
Archived ==
    /\ report.moved = {name \in DataNames : Exists(report.data_before[name])}
    /\ report.copy_dir \in DOMAIN fsys.hist
    /\ \A name \in report.moved :
          fsys.hist[report.copy_dir][name] = report.data_before[name]
    /\ \A name \in DataNames :
          Exists(fsys.data[name]) => name \in Artifacts /\ fsys.data[name].by = report.run

\* C14 as stated: with an artifact in data/, every file of data/ is moved into
\* the hist directory before the artifacts are written, and after a successful
\* create_report data/ holds just the three artifacts of the current call.
C14_ArchiveAlways ==
    ArchiveDue =>
        /\ Archived
        /\ report.result = "Ok" => \A name \in Artifacts : Exists(fsys.data[name])

\* C14, amended: the same, for a call whose archival did not fail (the hist
\* directory was created, data/ was listed and every file was renamed).
C14_ArchiveUnlessFailed ==
    (ArchiveDue /\ ~report.hist_failed) =>
        /\ Archived
        /\ report.result = "Ok" => \A name \in Artifacts : Exists(fsys.data[name])

\* A successful call that archived the artifacts of the call before and the
\* file of the user.
C14_Witness ==
    /\ ArchiveDue
    /\ ~report.hist_failed
    /\ report.result = "Ok"
    /\ report.run = 2
    /\ report.moved = DataNames
    /\ \A name \in Artifacts : fsys.hist[report.copy_dir][name].by = 1

\* C15: a failed archival (create_dir, read_dir or a rename of hist_results)
\* is not what create_report returns with: the three artifacts are still
\* written, over what is left in data/, and the components rendered; the call
\* fails only in one of these later steps and succeeds otherwise.
C15_ArchivalFailureNotFatal ==
    (InReportCall /\ report.hist_failed) =>
        /\ report.pc \in {"write_stats", "write_meta", "write_samples",
                          "components", "returned"}
        /\ report.pc = "returned" =>
              report.at \in {"write_stats", "write_meta", "write_samples", "components"}
        /\ report.pc \in {"components", "returned"} /\ report.at = "components" =>
              /\ report.written = Artifacts
              /\ \A name \in Artifacts : Exists(fsys.data[name])
        /\ report.result = "Ok" /\ report.current_results.kind = "Some" =>
              report.rendered = DOMAIN fsys.components

\* The rename of stats.json failed: the call overwrote it, kept the file of
\* the user, rendered every component and returned Ok.
C15_Witness ==
    /\ InReportCall
    /\ report.hist_failed
    /\ report.result = "Ok"
    /\ Exists(report.data_before["stats.json"])
    /\ "stats.json" \notin report.moved
    /\ fsys.data["stats.json"].by = report.run
    /\ Exists(fsys.data["notes.txt"])
    /\ report.rendered = DOMAIN fsys.components

\* The stats.json that baseline_results looks for, once the call is past it
\* (data/ is as it was until the archival, which records it).
BaselineLooked ==
    /\ InReportCall
    /\ report.pc \notin {"setup", "baseline"}
    /\ report.at \notin {"setup", "baseline"}
    /\ report.config.baseline_path \/ report.pc # "dump"

BaselineFile ==
    IF report.config.baseline_path
    THEN IF fsys.baseline_dir THEN fsys.baseline_stats ELSE Absent
    ELSE report.data_before["stats.json"]

\* C16: create_report never returns from the loading of the baseline; with no
\* baseline directory, no stats.json, or a stats.json that is no StatsSummary
\* (the null of a run with no Ok sample, a broken file) the baseline is None,
\* and the artifacts and components are produced as without a baseline.
C16_BaselineNeverFails ==
    /\ InReportCall /\ report.pc = "returned" => report.at # "baseline"
    /\ BaselineLooked =>
          /\ (\/ ~Exists(BaselineFile)
              \/ BaselineFile.text \in {JsonNull, JsonInvalid})
                => report.baseline_results = NoneResult
          /\ report.result = "Ok" =>
                /\ report.written = Artifacts
                /\ report.current_results.kind = "Some" =>
                      report.rendered = DOMAIN fsys.components

\* The call before had no Ok sample and wrote null; this call finds no
\* baseline in it, writes its artifacts and renders its components.
C16_Witness ==
    /\ BaselineLooked
    /\ ~report.config.baseline_path
    /\ Exists(BaselineFile)
    /\ BaselineFile.text = JsonNull
    /\ BaselineFile.by = 1
    /\ report.baseline_results = NoneResult
    /\ report.result = "Ok"
    /\ report.written = Artifacts
    /\ report.rendered = DOMAIN fsys.components

\* The summary.html of the current call, written with a baseline
SummaryWithBaseline ==
    /\ InReportCall
    /\ "summary.html" \in report.rendered
    /\ report.baseline_results.kind = "Some"

CannotCompare == "cannot be compared due to different time scales"

\* C17: a summary written with a baseline of another scale shows the message
\* "cannot be compared due to different time scales" for $PERFORMANCE_OUTCOME$
\* and for $PERMUTATION_PERFORMANCE_OUTCOME$, and create_report returns no
\* error; with a baseline of the same scale both are replaced by an outcome.
C17_ScaleMismatchMessage ==
    SummaryWithBaseline =>
        LET html == fsys.components["summary.html"].text
        IN  IF report.baseline_results.scale # report.current_results.scale
            THEN /\ html["$PERFORMANCE_OUTCOME$"] = Replaced(CannotCompare)
                 /\ html["$PERMUTATION_PERFORMANCE_OUTCOME$"] = Replaced(CannotCompare)
                 /\ report.result # "Err"
            ELSE /\ html["$PERFORMANCE_OUTCOME$"].replaced
                 /\ html["$PERMUTATION_PERFORMANCE_OUTCOME$"].replaced

\* Improved for Regressed and Regressed for Improved
Flipped(kind) ==
    CASE kind = "Improved" -> "Regressed"
      [] kind = "Regressed" -> "Improved"
      [] OTHER -> kind

\* C19: PermutationTester::test on two non-empty samples and on the same
\* samples swapped (same seed, n_samples and alpha) gives Improved for
\* Regressed, Regressed for Improved, Inconclusive for Inconclusive, and the
\* same p-value.
C19_PermutationSymmetry ==
    (eval.fn = "permutation_test" /\ eval.pc = "done") =>
        /\ eval.swapped.kind = Flipped(eval.outcome.kind)
        /\ eval.outcome.kind \in {"Improved", "Regressed"} =>
              RatEq(eval.swapped.p_value, eval.outcome.p_value)

\* performance_outcome returned an outcome for the two NormalParams.
AnalyticDone ==
    /\ eval.fn = "performance_outcome"
    /\ eval.pc = "done"
    /\ eval.outcome # NoOutcome

\* C20 as stated: swapping baseline and current leaves the p-value as it is
\* and turns every Improved into Regressed and every Regressed into Improved;
\* the outcome is Inconclusive exactly when p > alpha.
C20_AnalyticSymmetry ==
    AnalyticDone =>
        /\ eval.swapped_p_value = eval.p_value
        /\ eval.swapped.kind = Flipped(eval.outcome.kind)
        /\ eval.outcome.kind = "Inconclusive"
              <=> p_value_greater(eval.p_value.v, eval.alpha)

\* C20, amended: the same, with the outcome turned for two different means;
\* for equal means an outcome that is not Inconclusive is Improved both ways.
C20_AnalyticSymmetryOfDifferentMeans ==
    AnalyticDone =>
        /\ eval.swapped_p_value = eval.p_value
        /\ eval.np_base.mean # eval.np.mean =>
              eval.swapped.kind = Flipped(eval.outcome.kind)
        /\ eval.np_base.mean = eval.np.mean =>
              eval.swapped.kind = eval.outcome.kind
        /\ eval.outcome.kind = "Inconclusive"
              <=> p_value_greater(eval.p_value.v, eval.alpha)
        /\ eval.swapped.kind = "Inconclusive"
              <=> p_value_greater(eval.swapped_p_value.v, eval.alpha)

\* (520, 50, 80) against (500, 45, 50) at alpha = 0.01: Improved, and
\* Regressed with the two swapped
C20_Witness ==
    /\ AnalyticDone
    /\ eval.np_base = NormalParams(520, 50, 80)
    /\ eval.np = NormalParams(500, 45, 50)
    /\ eval.alpha.alpha = Rat(1, 100)
    /\ eval.outcome.kind = "Improved"
    /\ eval.swapped.kind = "Regressed"

PercentileDone == eval.fn = "percentile" /\ eval.pc = "done"

\* C22: percentile on a sorted sequence of one element returns the element
\* for every level from 0 to 1, both included, and reads no other index.
C22_SingleElement ==
    (PercentileDone /\ Len(eval.samples) = 1) =>
        /\ ~eval.result.panic
        /\ eval.result.v = Rat(eval.samples[1], 1)

\* C23: for n >= 1 sorted samples and 0 < level < 1, with c = n * level,
\* percentile is the mean of the c-th and the (c+1)-th smallest sample for an
\* integer c and the (floor(c)+1)-th smallest sample otherwise.
C23_PercentileTable ==
    (/\ PercentileDone
     /\ 0 < eval.level.num
     /\ eval.level.num < eval.level.den) =>
        LET c_num == eval.n * eval.level.num
            c_floor == c_num \div eval.level.den
        IN  /\ ~eval.result.panic
            /\ IF c_floor * eval.level.den = c_num
               THEN RatEq(eval.result.v,
                          Rat(eval.samples[c_floor] + eval.samples[c_floor + 1], 2))
               ELSE RatEq(eval.result.v, Rat(eval.samples[c_floor + 1], 1))

\* The median of the ten samples of the test is 72.5.
C23_Witness ==
    /\ PercentileDone
    /\ eval.samples = PercentileTable
    /\ eval.level = Rat(1, 2)
    /\ ~eval.result.panic
    /\ RatEq(eval.result.v, Rat(145, 2))

BuildFails == cfg.method = "Post" /\ ~cfg.json_payload /\ ~cfg.gql_query

\* C24: for each of the methods Get, Post, Put and Delete the request factory
\* returns a request or an error value; the error is returned exactly for a
\* Post with neither a json payload nor a gql query, and then the run yields
\* None and no warm-up request and no timed request was sent.
C24_BuildRequestOrError ==
    pc # "assemble" =>
        /\ assemble_request(cfg) \in {"Some", "None"}
        /\ assemble_request(cfg) = "None" <=> BuildFails
        /\ BuildFails =>
              /\ pc = "returned"
              /\ stats = NoneResult
              /\ warmupSent = 0
              /\ history = <<>>

CliExited == eval.fn = "main" /\ eval.pc = "exited"

CliConfigInvalid ==
    \/ eval.in.cmd = "FromToml" /\ eval.in.file # "valid"
    \/ eval.in.cmd = "Get" /\ ~eval.in.url

\* C25: the process exits with code 0 when the run and the report succeed,
\* and with a code other than 0 when the configuration is invalid or cannot
\* be parsed or when the report setup fails.
C25_ExitCode ==
    CliExited =>
        /\ (/\ ~CliConfigInvalid
            /\ eval.in.client = "Ok"
            /\ eval.in.run \in {"Summary", "SummaryNoStats"}
            /\ eval.in.report = "Ok") => eval.exit_code = EXIT_SUCCESS
        /\ CliConfigInvalid => eval.exit_code # EXIT_SUCCESS
        /\ (/\ ~CliConfigInvalid
            /\ eval.in.client = "Ok"
            /\ eval.in.run \in {"Summary", "SummaryNoStats"}
            /\ eval.in.report = "SetupErr") => eval.exit_code # EXIT_SUCCESS

WorkersDone ==
    /\ Len(tasks) = NThreads(cfg)
    /\ Len(samples_by_thread) = Len(tasks)
    /\ \A i \in 1..Len(tasks) :
          /\ TaskFinished(tasks[i])
          /\ attempts[i] = n_runs(cfg)
          /\ Len(history[i]) = n_runs(cfg)

\* The run has ended: start_run has returned None before a worker was
\* started, or every worker has finished after n_runs attempts, the wait on
\* the workers has returned and the statistics were computed.
RunEnded ==
    /\ pc = "returned"
    /\ stats # NotBuilt
    /\ \/ tasks = <<>> /\ stats = NoneResult
       \/ WarmupFinished /\ WorkersDone

Records(result, response) ==
    IF response.status_code = SUCCESS
    THEN result.kind = "Ok" /\ result.content_length = response.content_length
    ELSE result.kind = "Failed" /\ result.status_code = response.status_code

\* C27: under every interleaving of the workers' request completions the
\* collector with thread_idx i holds, in order and once each, the outcomes
\* of exactly the responses to the requests that worker i sent, and the wait
\* on the workers hands back each worker's own collector.
C27_OwnCollector ==
    /\ \A i \in 1..Len(tasks) :
          /\ tasks[i].collector.thread_idx = i - 1
          /\ Len(Results(i)) = Len(Responses(i))
          /\ \A k \in 1..Len(Results(i)) :
                /\ Records(Results(i)[k], Responses(i)[k])
                /\ Results(i)[k].attempt < attempts[i]
                /\ \A l \in 1..(k - 1) : Results(i)[l].attempt # Results(i)[k].attempt
    /\ \A j \in 1..Len(samples_by_thread) :
          /\ samples_by_thread[j].thread_idx = j - 1
          /\ samples_by_thread[j] = tasks[j].collector

\* Both workers were awaited; the first recorded a failed response and the
\* second an Ok response.
C27_Witness ==
    /\ Len(samples_by_thread) = 2
    /\ \E k \in 1..Len(Results(1)) : Results(1)[k].kind = "Failed"
    /\ \E k \in 1..Len(Results(2)) : Results(2)[k].kind = "Ok"
    /\ Len(Results(1)) + Len(Results(2)) >= 3

\* An artifact in a hist directory stays there as it is.
ArchiveKept ==
    \A t \in DOMAIN fsys.hist, name \in Artifacts :
        Exists(fsys.hist[t][name]) =>
            /\ t \in DOMAIN fsys'.hist
            /\ fsys'.hist[t][name] = fsys.hist[t][name]

\* An artifact in data/ stays there as it is or is in a hist directory.
DataKept ==
    \A name \in Artifacts :
        Exists(fsys.data[name]) =>
            \/ fsys'.data[name] = fsys.data[name]
            \/ \E t \in DOMAIN fsys'.hist : fsys'.hist[t][name] = fsys.data[name]

\* C28: no step of a sequence of create_report calls on one report directory
\* overwrites or loses a stats.json, meta.json or samples.json of an earlier
\* run: an archived artifact stays in its hist directory and an artifact of
\* data/ is moved into a hist directory before it is written again, also
\* when two calls archive within the same second.
C28_EarlierArtifactsKept == [][ArchiveKept /\ DataKept]_vars

\* C29: NormalParams::from never fails and gives std > 0 and n_samples >= 1
\* for every summary, also for one Ok sample (std None), for equal durations
\* and for a run that also had Failed outcomes.
C29_NormalParamsTotal ==
    (eval.fn = "NormalParams::from" /\ eval.pc = "done") =>
        /\ ~eval.result.panic
        /\ ~StdIsZero(eval.result.np.std)
        /\ eval.result.np.n_samples >= 1

\* The indices drawn from the stream at the positions from..to
Drawn(rng, from, to) == {sample(rng, pos) : pos \in from..to}

\* C30: every simulated permutation partitions the indices 0..total_len-1 of
\* the pool: the permuted baseline takes baseline_len different indices, the
\* permuted current the current_len other ones, each pooled sample is used
\* once, and the drawing stops with the draw that gives the baseline_len-th
\* different index.
C30_PermutationPartitions ==
    eval.fn = "simulate_paired_distribution" =>
        \A n \in 1..Len(eval.sims) :
            LET t    == eval.tester
                sim  == eval.sims[n].sim
                from == eval.sims[n].start
                b    == sim.baseline_indices
                c    == sim.current_indices
            IN  /\ Len(b) = t.baseline_len
                /\ Cardinality(Range(b)) = t.baseline_len
                /\ Len(c) = t.current_len
                /\ Cardinality(Range(c)) = t.current_len
                /\ Range(b) \cap Range(c) = {}
                /\ Range(b) \cup Range(c) = 0..(t.total_len - 1)
                /\ sim.baseline = [k \in 1..t.baseline_len |-> idx_value(t, b[k]).v]
                /\ sim.current = [k \in 1..t.current_len |-> idx_value(t, c[k]).v]
                /\ Drawn(eval.rng, from, sim.pos - 1) = Range(b)
                /\ Cardinality(Drawn(eval.rng, from, sim.pos - 2)) = t.baseline_len - 1

\* A permutation in which an index came up a second time before the
\* baseline was full: more draws than baseline indices.
C30_Witness ==
    /\ eval.fn = "simulate_paired_distribution"
    /\ \E n \in 1..Len(eval.sims) :
          /\ eval.sims[n].sim.pos - eval.sims[n].start > eval.tester.baseline_len
          /\ eval.tester.baseline_len = 2
          /\ eval.tester.current_len = 2

====
